---------------------------- MODULE Spec2Model ----------------------------
(***************************************************************************)
(* A model of yakonfig: the global configuration holder (yakonfig.py), the *)
(* module-tree walker and the top-level assembly built on it (toplevel.py) *)
(* and the overlay of configuration trees (yakonfig.merge).                *)
(*                                                                         *)
(* Three specifications share the variables:                               *)
(*   Spec          the holder and the scoped overrides run against it;     *)
(*   SpecOverlay   overlay_config applied to a bounded set of tree pairs;  *)
(*   SpecAssembly  set_default_config and fill_in_arguments applied to a   *)
(*                 bounded set of module forests, documents and arguments. *)
(***************************************************************************)
EXTENDS Integers, Sequences, FiniteSets, TLC

VARIABLES
    config_cache,         \* yakonfig.py:23  _config_cache
    config_file_path,     \* yakonfig.py:21  _config_file_path
    runtime_args_object,  \* yakonfig.py:18  _runtime_args_object
    runtime_args_dict,    \* yakonfig.py:19  _runtime_args_dict
    scopes,               \* the frames of the defaulted_config generators
    call,                 \* the call being made: its name and its arguments
    ret                   \* what the call returned or raised

holder == <<config_cache, config_file_path, runtime_args_object,
            runtime_args_dict>>
vars == <<config_cache, config_file_path, runtime_args_object,
          runtime_args_dict, scopes, call, ret>>

----------------------------------------------------------------------------
(* Configuration values.  Python values are dynamically typed; every value *)
(* carries its type as a tag so that isinstance(x, Mapping) is a test.     *)

\* Python's None
Null == [tag |-> "Null"]
\* a number or a string
S(v) == [tag |-> "Scalar", val |-> v]
\* a list
L(items) == [tag |-> "Sequence", items |-> items]
\* a dict: f is a function from its keys to their values
M(f) == [tag |-> "Mapping", map |-> f]

\* the dict {}
EmptyMap == M([k \in {} |-> Null])

\* isinstance(x, collections.Mapping)
IsMapping(x) == x.tag = "Mapping"

\* the keys of a dict
KeysOf(m) == DOMAIN m.map

\* what a lookup of a missing key is compared with; never a stored value
Absent == [tag |-> "Absent"]

\* m.get(k, Absent)
Get(m, k) == IF k \in KeysOf(m) THEN m.map[k] ELSE Absent

\* m with m[k] = v
Put(m, k, v) == M([x \in KeysOf(m) \cup {k} |-> IF x = k THEN v ELSE m.map[x]])

----------------------------------------------------------------------------
(* yakonfig.merge.overlay_config                                           *)

RECURSIVE overlay_config(_, _)

\* overlay_config without the recursion: a key of both takes the overlay's
\* value whole
overlay_config_shallow(c0, c1) ==
    IF ~IsMapping(c0) \/ ~IsMapping(c1)
    THEN c1
    ELSE LET kept == KeysOf(c0) \ KeysOf(c1)
             set  == {k \in KeysOf(c1) : c1.map[k] # Null}
         IN  M([k \in kept \cup set |->
                  IF k \in kept THEN c0.map[k] ELSE c1.map[k]])

\* overlay_config that stores a null of the overlay instead of dropping the key
overlay_config_keeps_null(c0, c1) ==
    IF ~IsMapping(c0) \/ ~IsMapping(c1)
    THEN c1
    ELSE LET kept == KeysOf(c0) \ KeysOf(c1)
             set  == KeysOf(c1)
         IN  M([k \in kept \cup set |->
                  IF k \in kept THEN c0.map[k]
                  ELSE IF k \in KeysOf(c0) /\ c1.map[k] # Null
                       THEN overlay_config(c0.map[k], c1.map[k])
                       ELSE c1.map[k]])

\* overlay_config that keeps a base mapping when the overlay is not a mapping
overlay_config_keeps_base(c0, c1) ==
    IF ~IsMapping(c1)
    THEN IF IsMapping(c0) /\ c1 # Null THEN c0 ELSE c1
    ELSE IF ~IsMapping(c0)
    THEN c1
    ELSE LET kept == KeysOf(c0) \ KeysOf(c1)
             set  == {k \in KeysOf(c1) : c1.map[k] # Null}
         IN  M([k \in kept \cup set |->
                  IF k \in kept THEN c0.map[k]
                  ELSE IF k \in KeysOf(c0)
                       THEN overlay_config(c0.map[k], c1.map[k])
                       ELSE c1.map[k]])

\* overlay_config that returns an empty overlay as it is ("if not c1")
overlay_config_empty_wins(c0, c1) ==
    IF ~IsMapping(c0) \/ ~IsMapping(c1) \/ KeysOf(c1) = {}
    THEN c1
    ELSE LET kept == KeysOf(c0) \ KeysOf(c1)
             set  == {k \in KeysOf(c1) : c1.map[k] # Null}
         IN  M([k \in kept \cup set |->
                  IF k \in kept THEN c0.map[k]
                  ELSE IF k \in KeysOf(c0)
                       THEN overlay_config(c0.map[k], c1.map[k])
                       ELSE c1.map[k]])

\* overlay_config that stores a null over a key base has
overlay_config_null_replaces(c0, c1) ==
    IF ~IsMapping(c0) \/ ~IsMapping(c1)
    THEN c1
    ELSE LET kept == KeysOf(c0) \ KeysOf(c1)
             set  == {k \in KeysOf(c1) : c1.map[k] # Null \/ k \in KeysOf(c0)}
         IN  M([k \in kept \cup set |->
                  IF k \in kept THEN c0.map[k]
                  ELSE IF k \in KeysOf(c0)
                       THEN overlay_config(c0.map[k], c1.map[k])
                       ELSE c1.map[k]])

overlay_config(c0, c1) ==
    IF ~IsMapping(c0) \/ ~IsMapping(c1)
    THEN c1
    ELSE LET kept == KeysOf(c0) \ KeysOf(c1)
             set  == {k \in KeysOf(c1) : c1.map[k] # Null}
         IN  M([k \in kept \cup set |->
                  IF k \in kept THEN c0.map[k]
                  ELSE IF k \in KeysOf(c0)
                       THEN overlay_config(c0.map[k], c1.map[k])
                       ELSE c1.map[k]])

----------------------------------------------------------------------------
(* Exceptions.  An exception is its class, which message it carries and    *)
(* the name formatted into the message.                                    *)

NoError == [kind |-> "none", what |-> "", name |-> ""]
ProgrammerError(what, name) ==
    [kind |-> "ProgrammerError", what |-> what, name |-> name]
ConfigurationError(what, name) ==
    [kind |-> "ConfigurationError", what |-> what, name |-> name]

----------------------------------------------------------------------------
(* Configurable objects (configurable.py).  A module is a record of the    *)
(* attributes the walker and the visitors read with getattr:               *)
(*   config_name     Name(s), or Null when the attribute is missing/None   *)
(*   default_config  whatever the attribute holds, Absent when the module  *)
(*                   has none; a Mapping in a well-formed module           *)
(*   sub_modules     a sequence of modules                                 *)
(*   runtime_keys    a sequence of <<argument name, config key>> pairs in  *)
(*                   the order iteritems() yields them                     *)
(*   check_config    "none" (no such attribute), "pass" (returns) or       *)
(*                   "raise" (raises ConfigurationError naming `name`)     *)

Name(s) == [tag |-> "Str", str |-> s]

Module(name, default, subs, rkeys, check) ==
    [config_name |-> name, default_config |-> default, sub_modules |-> subs,
     runtime_keys |-> rkeys, check_config |-> check]

\* module.check_config(config, name) for the three behaviours of a checker
CheckConfig(module, config, name) ==
    IF module.check_config = "raise"
    THEN ConfigurationError("check_config", name)
    ELSE NoError

\* configurable.check_subconfig(config, name, sub): the parent mapping
\* after the call (setdefault may add the entry), the exception raised and
\* what sub.check_config was called with (Null if it was not called)
check_subconfig(config, name, sub) ==
    LET subname   == sub.config_name.str
        after     == IF subname \in KeysOf(config) THEN config
                     ELSE Put(config, subname, EmptyMap)
        subconfig == after.map[subname]
        qualified == name \o "." \o subname
    IN  IF ~IsMapping(subconfig)
        THEN [config |-> after,
              err |-> ProgrammerError("must be a mapping", subname),
              checked |-> Null]
        ELSE IF sub.check_config # "none"
        THEN [config |-> after,
              err |-> CheckConfig(sub, subconfig, qualified),
              checked |-> [config |-> subconfig, name |-> qualified]]
        ELSE [config |-> after, err |-> NoError, checked |-> Null]

----------------------------------------------------------------------------
(* The visitors handed to _walk_config: each takes the scoped mapping, the *)
(* module and its qualified name, and updates the scoped mapping in place. *)

\* dict(pairs) from item i on: every item must be a sequence of length 2,
\* key first; when an item is not, the exception is raised and no dict is
\* made.  The keys of a dict are strings here, and a string is an atom: a
\* pair whose key is a number or None, and an item that is a string of two
\* characters or a mapping of two keys, have no counterpart and no case
\* below.  Nor has a stream: it is iterated over the lines of its text,
\* and a stream here is known by the document it holds, not by its lines.
RECURSIVE DictFromPairs(_, _, _)
DictFromPairs(items, i, made) ==
    IF i > Len(items) THEN [err |-> "none", dict |-> made]
    ELSE
    LET item == items[i]
    IN  CASE item.tag \in {"Null", "Scalar", "Namespace"} ->
               [err |-> "TypeError", dict |-> EmptyMap]
          [] item.tag = "Mapping" /\ Cardinality(KeysOf(item)) # 2 ->
               [err |-> "ValueError", dict |-> EmptyMap]
          [] item.tag = "Str" /\ item.str = "" ->
               [err |-> "ValueError", dict |-> EmptyMap]
          [] item.tag = "Sequence" /\ Len(item.items) # 2 ->
               [err |-> "ValueError", dict |-> EmptyMap]
          [] /\ item.tag = "Sequence" /\ Len(item.items) = 2
             /\ item.items[1].tag \in {"Mapping", "Sequence"} ->
               [err |-> "TypeError", dict |-> EmptyMap]
          [] /\ item.tag = "Sequence" /\ Len(item.items) = 2
             /\ item.items[1].tag = "Str" ->
               DictFromPairs(items, i + 1,
                             Put(made, item.items[1].str, item.items[2]))

\* dict(getattr(module, 'default_config', {})): the dict made (a shallow
\* copy of a mapping, the dict of a sequence of pairs, {} of an empty
\* string) and the kind of exception raised, "none" if none is: a
\* non-empty string yields items of one character, so ValueError; None,
\* numbers and argparse namespaces are not iterable, so TypeError.  A
\* stream is iterated over its lines and has no case (see DictFromPairs).
DictOf(x) ==
    CASE x.tag = "Mapping"  -> [err |-> "none", dict |-> x]
      [] x.tag = "Absent"   -> [err |-> "none", dict |-> EmptyMap]
      [] x.tag = "Sequence" -> DictFromPairs(x.items, 1, EmptyMap)
      [] x.tag = "Str"      -> IF x.str = ""
                               THEN [err |-> "none", dict |-> EmptyMap]
                               ELSE [err |-> "ValueError", dict |-> EmptyMap]
      [] x.tag \in {"Null", "Scalar", "Namespace"} ->
                               [err |-> "TypeError", dict |-> EmptyMap]

----------------------------------------------------------------------------
(* Objects.  `config[k] = v` binds the object v, it does not copy it, and  *)
(* the walk goes on inside the object it finds at a key: what one module   *)
(* writes shows wherever that object is bound.  The values above cannot    *)
(* tell a copy from the object itself, so the visitors and the walk are    *)
(* written on a heap: a sequence of dict objects, each a function from     *)
(* keys to cells.  A cell is a value that is not a dict, or the reference  *)
(* of a dict.                                                              *)

Ref(id) == [tag |-> "Ref", id |-> id]
IsRef(x) == x.tag = "Ref"

\* the items of {}
NoItems == [k \in {} |-> Null]

\* the caller's value v as objects of the heap: the heap and the cell of v
RECURSIVE Store(_, _)
RECURSIVE StoreItems(_, _, _, _)
Store(heap, value) ==
    IF ~IsMapping(value) THEN [heap |-> heap, cell |-> value]
    ELSE LET id == Len(heap) + 1
         IN  [heap |-> StoreItems(Append(heap, NoItems), id, value,
                                  KeysOf(value)),
              cell |-> Ref(id)]

StoreItems(heap, id, value, keys) ==
    IF keys = {} THEN heap
    ELSE LET k == CHOOSE x \in keys : TRUE
             s == Store(heap, value.map[k])
         IN  StoreItems([s.heap EXCEPT ![id] = (k :> s.cell) @@ @],
                        id, value, keys \ {k})

\* the value behind a cell
RECURSIVE Reify(_, _)
Reify(heap, cell) ==
    IF ~IsRef(cell) THEN cell
    ELSE M([k \in DOMAIN heap[cell.id] |-> Reify(heap, heap[cell.id][k])])

\* a dict as the checks of the walk see it: its keys, and for each
\* whether the value is a dict
Keyed(heap, id) ==
    M([k \in DOMAIN heap[id] |->
         IF IsRef(heap[id][k]) THEN EmptyMap ELSE heap[id][k]])

\* the module objects of a forest
RECURSIVE ModulesOf(_)
ModulesOf(modules) ==
    IF modules = <<>> THEN {}
    ELSE {Head(modules)} \cup ModulesOf(Head(modules).sub_modules)
                         \cup ModulesOf(Tail(modules))

\* every module's default_config as an object: the heap and the cell of
\* each module's default_config
RECURSIVE StoreDefaults(_, _, _)
StoreDefaults(heap, mods, defaults) ==
    IF mods = {} THEN [heap |-> heap, defaults |-> defaults]
    ELSE LET module == CHOOSE x \in mods : TRUE
             s      == Store(heap, module.default_config)
         IN  StoreDefaults(s.heap, mods \ {module},
                           (module :> s.cell) @@ defaults)

\* work_in that copies nothing
WorkInDefaults_copies_nothing(heap, scoped, default) == heap

\* assemble_default_config.work_in on the dict `scoped`:
\* config.update(dict(default_config)); the values of the copy are the
\* objects default_config holds
WorkInDefaults(heap, scoped, default) ==
    IF IsRef(default)
    THEN [heap EXCEPT ![scoped] = heap[default.id] @@ @]
    ELSE LET s == Store(heap, DictOf(default).dict)
         IN  [s.heap EXCEPT ![scoped] = s.heap[s.cell.id] @@ @]

RECURSIVE WorkInArguments(_, _, _, _, _)

\* work_in that leaves alone a key the configuration already has
WorkInArguments_keeps_existing(heap, scoped, rkeys, i, args) ==
    IF i > Len(rkeys) THEN heap
    ELSE LET attr  == rkeys[i][1]
             cname == rkeys[i][2]
             v     == IF attr \in DOMAIN heap[args] THEN heap[args][attr]
                      ELSE Null
         IN  WorkInArguments(IF v # Null /\ cname \notin DOMAIN heap[scoped]
                             THEN [heap EXCEPT ![scoped] = (cname :> v) @@ @]
                             ELSE heap,
                             scoped, rkeys, i + 1, args)

\* work_in that also writes an argument whose value is None
WorkInArguments_writes_null(heap, scoped, rkeys, i, args) ==
    IF i > Len(rkeys) THEN heap
    ELSE LET attr  == rkeys[i][1]
             cname == rkeys[i][2]
         IN  WorkInArguments(IF attr \in DOMAIN heap[args]
                             THEN [heap EXCEPT ![scoped] =
                                     (cname :> heap[args][attr]) @@ @]
                             ELSE heap,
                             scoped, rkeys, i + 1, args)

\* fill_in_arguments.work_in on the dict `scoped`: the loop over
\* runtime_keys, from pair i on; config[cname] = v binds the argument
WorkInArguments(heap, scoped, rkeys, i, args) ==
    IF i > Len(rkeys) THEN heap
    ELSE LET attr  == rkeys[i][1]
             cname == rkeys[i][2]
             v     == IF attr \in DOMAIN heap[args] THEN heap[args][attr]
                      ELSE Null
         IN  WorkInArguments(IF v # Null
                             THEN [heap EXCEPT ![scoped] = (cname :> v) @@ @]
                             ELSE heap,
                             scoped, rkeys, i + 1, args)

\* the exception the visitor f raises when called for a module, or NoError:
\* the defaults visitor raises what dict(default_config) raises; the other
\* visitors raise nothing
VisitError(f, module, name) ==
    IF f = "defaults" /\ DictOf(module.default_config).err # "none"
    THEN [kind |-> DictOf(module.default_config).err,
          what |-> "dict(default_config)", name |-> name]
    ELSE NoError

\* f(config[name], module, new_name) for the visitor f: the heap after
\* the call
Visit(f, heap, config, name, module, args, defaults) ==
    CASE f = "defaults" ->
           WorkInDefaults(heap, heap[config][name].id, defaults[module])
      [] f = "arguments" ->
           WorkInArguments(heap, heap[config][name].id, module.runtime_keys,
                           1, args)
      [] OTHER -> heap

----------------------------------------------------------------------------
(* The factory (factory.py).  An auto-configured object is what            *)
(* create_configurable makes of a callable: its config_name, the           *)
(* parameters without default (services, in order) and the parameters      *)
(* with their defaults (default_config).  A factory is the mapping of the  *)
(* attributes it offers as services.                                       *)

AutoConfigured(name, services, defaults) ==
    [config_name |-> name, services |-> services, default_config |-> defaults]

\* AutoConfigured.check_config(config): config is the mapping of the parent
AutoConfigured_check_config(self, config) ==
    LET conf    == IF self.config_name \in KeysOf(config)
                   THEN config.map[self.config_name] ELSE EmptyMap
        extras  == KeysOf(conf) \ KeysOf(self.default_config)
        missing == KeysOf(self.default_config) \ KeysOf(conf)
        clash   == {i \in 1..Len(self.services) :
                      self.services[i] \in KeysOf(conf)}
    IN  IF extras # {}
        THEN ConfigurationError("Unsupported config options", self.config_name)
        ELSE IF extras # {}
        THEN ConfigurationError("Missing config options", self.config_name)
        ELSE IF clash # {}
        THEN ProgrammerError("is already defined in its configuration",
                             self.config_name)
        ELSE NoError

\* the loop over configurable.services in create, from service i on: the
\* keyword arguments with the services injected, or the exception
RECURSIVE InjectServices(_, _, _, _)
InjectServices(self, services, i, config) ==
    IF i > Len(services) THEN [err |-> NoError, config |-> config]
    ELSE IF services[i] \notin KeysOf(self)
    THEN [err |-> ProgrammerError("does not provide it", services[i]),
          config |-> config]
    ELSE InjectServices(self, services, i + 1,
                        Put(config, services[i], self.map[services[i]]))

\* configurable(**config): the callable behind an auto-configured object
\* has one parameter per service and per default, and raises TypeError
\* for any other keyword and for a parameter without default that it is
\* not given
CallConfigured(configurable, config) ==
    LET parameters == {configurable.services[i] :
                          i \in 1..Len(configurable.services)}
                      \cup KeysOf(configurable.default_config)
        required   == {configurable.services[i] :
                          i \in 1..Len(configurable.services)}
    IN  IF KeysOf(config) \ parameters # {}
        THEN [kind |-> "TypeError",
              what |-> configurable.config_name
                       \o "() got an unexpected keyword argument",
              name |-> ""]
        ELSE IF required \ KeysOf(config) # {}
        THEN [kind |-> "TypeError",
              what |-> configurable.config_name \o "() takes more arguments",
              name |-> ""]
        ELSE NoError

\* AutoFactory.create(config, configurable, **kwargs): the exception raised
\* and the keyword arguments configurable is called with (Null if it is
\* not called)
AutoFactory_create(self, config, configurable, kwargs) ==
    LET checked == AutoConfigured_check_config(configurable, config)
        conf    == IF configurable.config_name \in KeysOf(config)
                   THEN config.map[configurable.config_name] ELSE EmptyMap
        merged  == M([k \in KeysOf(conf) \cup KeysOf(kwargs) |->
                        IF k \in KeysOf(kwargs) THEN kwargs.map[k]
                        ELSE conf.map[k]])
        ready   == InjectServices(self, configurable.services, 1, merged)
    IN  IF checked # NoError THEN [err |-> checked, called |-> Null]
        ELSE IF ready.err # NoError THEN [err |-> ready.err, called |-> Null]
        ELSE [err |-> CallConfigured(configurable, ready.config),
              called |-> ready.config]

----------------------------------------------------------------------------
(* toplevel._walk_config on the dict `config` of the heap.  The loop over  *)
(* `modules` from index i on, with `visited` the names the visitor has     *)
(* been called with so far.  Returns the heap as the walk leaves it, the   *)
(* exception raised (or NoError) and the names visited.                    *)

\* the checks with the two exception classes of required=True exchanged
PresenceCheck_classes_exchanged(config, name, new_name, required) ==
    IF required
    THEN IF name \notin KeysOf(config)
         THEN ConfigurationError("not present in configuration", new_name)
         ELSE IF ~IsMapping(config.map[name])
         THEN ProgrammerError("must be an object configuration", new_name)
         ELSE NoError
    ELSE IF name \in KeysOf(config)
         THEN ProgrammerError("multiple modules providing", new_name)
         ELSE NoError

\* the checks without the one of required=False
PresenceCheck_allows_duplicates(config, name, new_name, required) ==
    IF required
    THEN IF name \notin KeysOf(config)
         THEN ProgrammerError("not present in configuration", new_name)
         ELSE IF ~IsMapping(config.map[name])
         THEN ConfigurationError("must be an object configuration", new_name)
         ELSE NoError
    ELSE NoError

\* the checks of one module's key before the visitor is called
\* (toplevel.py:230-240): the exception raised, or NoError
PresenceCheck(config, name, new_name, required) ==
    IF required
    THEN IF name \notin KeysOf(config)
         THEN ProgrammerError("not present in configuration", new_name)
         ELSE IF ~IsMapping(config.map[name])
         THEN ConfigurationError("must be an object configuration", new_name)
         ELSE NoError
    ELSE IF name \in KeysOf(config)
         THEN ProgrammerError("multiple modules providing", new_name)
         ELSE NoError

RECURSIVE WalkFrom(_, _, _, _, _, _, _, _, _, _)
WalkFrom(heap, config, modules, i, f, prefix, required, args, defaults, visited) ==
    IF i > Len(modules)
    THEN [heap |-> heap, err |-> NoError, visited |-> visited]
    ELSE
    LET module == modules[i]
        raise(e) == [heap |-> heap, err |-> e, visited |-> visited]
    IN
    IF module.config_name = Null
    THEN raise(ProgrammerError("must provide a config_name", ""))
    ELSE
    LET name     == module.config_name.str
        new_name == prefix \o name
        present  == PresenceCheck(Keyed(heap, config), name, new_name,
                                  required)
    IN
    IF present # NoError
    THEN raise(present)
    ELSE
    LET made   == IF required THEN heap
                  ELSE [Append(heap, NoItems) EXCEPT
                          ![config] = (name :> Ref(Len(heap) + 1)) @@ @]
        thrown == VisitError(f, module, new_name)
        worked == Visit(f, made, config, name, module, args, defaults)
        sub    == WalkFrom(worked, worked[config][name].id,
                           module.sub_modules, 1, f, new_name \o ".",
                           required, args, defaults,
                           Append(visited, new_name))
    IN
    IF thrown # NoError
    THEN [heap |-> made, err |-> thrown,
          visited |-> Append(visited, new_name)]
    ELSE IF sub.err # NoError THEN sub
    ELSE WalkFrom(sub.heap, config, modules, i + 1, f, prefix, required,
                  args, defaults, sub.visited)

\* the walk from module i on, on a dict and an argument source of the
\* caller's: the dict as the walk leaves it, the exception raised, the
\* names visited, and the argument source as the walk leaves it
WalkOnValues(config, modules, i, f, required, args) ==
    LET ds == StoreDefaults(<<>>, ModulesOf(modules), <<>>)
        cs == Store(ds.heap, config)
        as == Store(cs.heap, args)
        r  == WalkFrom(as.heap, cs.cell.id, modules, i, f, "", required,
                       as.cell.id, ds.defaults, <<>>)
    IN  [config |-> Reify(r.heap, cs.cell), err |-> r.err,
         visited |-> r.visited, args |-> Reify(r.heap, as.cell)]

\* a walk that passes over the first module of the list
walk_config_skips_first(config, modules, f, required, args) ==
    WalkOnValues(config, modules, 2, f, required, args)

\* _walk_config(config, modules, f, prefix='', required=required)
walk_config(config, modules, f, required, args) ==
    WalkOnValues(config, modules, 1, f, required, args)

\* assemble_default_config(modules)
assemble_default_config(modules) ==
    walk_config(EmptyMap, modules, "defaults", FALSE, EmptyMap)

\* fill_in_arguments(config, modules, args), args already a Mapping: the
\* tree and the argument source as the walk leaves them
fill_in_arguments(config, modules, args) ==
    walk_config(config, modules, "arguments", TRUE, args)


----------------------------------------------------------------------------
(* The global state holder (yakonfig.py).  The operations are written on a *)
(* record h of the four module globals, so that the scoped override can    *)
(* run them in sequence; the actions below apply them to the variables.    *)

Holder(cc, cfp, rao, rad) ==
    [config_cache |-> cc, config_file_path |-> cfp,
     runtime_args_object |-> rao, runtime_args_dict |-> rad]

\* the four globals as they are now
H == Holder(config_cache, config_file_path, runtime_args_object,
            runtime_args_dict)

\* the globals at import
EmptyHolder == Holder(Null, Null, Null, Null)

\* Python truth of a value: None, '', {}, 0 and [] are false
Truthy(x) ==
    CASE x.tag = "Null"     -> FALSE
      [] x.tag = "Str"      -> x.str # ""
      [] x.tag = "Mapping"  -> KeysOf(x) # {}
      [] x.tag = "Scalar"   -> x.val # 0
      [] x.tag = "Sequence" -> x.items # <<>>
      [] OTHER              -> TRUE

\* an argparse Namespace whose vars() is the mapping v
Namespace(v) == [tag |-> "Namespace", vars |-> v]

\* an open stream that yaml.load parses to `content`
Stream(content) == [tag |-> "Stream", content |-> content]

\* the files open() finds, each with what yaml.load makes of it
FileSystem ==
    "P" :> M("top" :> M("msg" :> S(2))) @@ "Q" :> M("top" :> M("msg" :> S(2)))

\* set_runtime_args_object that leaves the dict binding in place
set_runtime_args_object_keeps_dict(h, args) ==
    [h EXCEPT !.runtime_args_object = args]

set_runtime_args_object(h, args) ==
    [h EXCEPT !.runtime_args_object = args, !.runtime_args_dict = Null]

set_runtime_args_dict(h, args) ==
    IF Truthy(args)
    THEN [h EXCEPT !.runtime_args_dict = args, !.runtime_args_object = Null]
    ELSE h

\* clear_global_config that forgets to reset the recorded path
clear_global_config_keeps_path(h) ==
    Holder(Null, h.config_file_path, Null, Null)

clear_global_config(h) == Holder(Null, Null, Null, Null)

\* set_global_config without the test of the recorded path
set_global_config_any_path(h, x) ==
    LET fail(h1, what) ==
            [h |-> h1, err |-> [kind |-> "Exception", what |-> what, name |-> ""],
             warned |-> FALSE, value |-> Null]
        store(h1, mapping) ==
            [h |-> [h1 EXCEPT !.config_cache = mapping], err |-> NoError,
             warned |-> (h1.config_cache # Null), value |-> mapping]
    IN
    CASE x.tag = "Str" ->
           LET h1 == [h EXCEPT !.config_file_path = x]
           IN  IF x.str \notin DOMAIN FileSystem
               THEN fail(h1, "IOError")
               ELSE store(h1, FileSystem[x.str])
      [] x.tag = "Mapping" -> store(h, x)
      [] x.tag = "Stream"  -> store(h, x.content)
      [] OTHER -> fail(h, "instead of a path, mapping object, or stream")

\* set_global_config that logs the warning whatever the tree was
set_global_config_always_warns(h, x) ==
    LET fail(h1, what) ==
            [h |-> h1, err |-> [kind |-> "Exception", what |-> what, name |-> ""],
             warned |-> FALSE, value |-> Null]
        store(h1, mapping) ==
            [h |-> [h1 EXCEPT !.config_cache = mapping], err |-> NoError,
             warned |-> TRUE, value |-> mapping]
    IN
    CASE x.tag = "Str" ->
           IF Truthy(h.config_file_path) /\ h.config_file_path # x
           THEN fail(h, "differs")
           ELSE LET h1 == [h EXCEPT !.config_file_path = x]
                IN  IF x.str \notin DOMAIN FileSystem
                    THEN fail(h1, "IOError")
                    ELSE store(h1, FileSystem[x.str])
      [] x.tag = "Mapping" -> store(h, x)
      [] x.tag = "Stream"  -> store(h, x.content)
      [] OTHER -> fail(h, "instead of a path, mapping object, or stream")

\* set_global_config(path_dict_or_stream): the globals afterwards, the
\* exception raised, whether the 'resetting config' warning was logged and
\* the value returned
set_global_config(h, x) ==
    LET fail(h1, what) ==
            [h |-> h1, err |-> [kind |-> "Exception", what |-> what, name |-> ""],
             warned |-> FALSE, value |-> Null]
        store(h1, mapping) ==
            [h |-> [h1 EXCEPT !.config_cache = mapping], err |-> NoError,
             warned |-> (h1.config_cache # Null), value |-> mapping]
    IN
    CASE x.tag = "Str" ->
           IF Truthy(h.config_file_path) /\ h.config_file_path # x
           THEN fail(h, "differs")
           ELSE LET h1 == [h EXCEPT !.config_file_path = x]
                IN  IF x.str \notin DOMAIN FileSystem
                    THEN fail(h1, "IOError")
                    ELSE store(h1, FileSystem[x.str])
      [] x.tag = "Mapping" -> store(h, x)
      [] x.tag = "Stream"  -> store(h, x.content)
      [] OTHER -> fail(h, "instead of a path, mapping object, or stream")

\* get_global_config(*args): the value found or the KeyError raised
RECURSIVE Descend(_, _, _)
Descend(c, args, i) ==
    IF i > Len(args) THEN [err |-> NoError, value |-> c]
    ELSE IF ~IsMapping(c)
         THEN [err |-> [kind |-> "TypeError", what |-> "", name |-> args[i]],
               value |-> Null]
    ELSE IF args[i] \in KeysOf(c)
         THEN Descend(c.map[args[i]], args, i + 1)
         ELSE [err |-> [kind |-> "KeyError", what |-> "", name |-> args[i]],
               value |-> Null]

\* get_global_config that returns None for the whole of an unset tree
get_global_config_none_when_empty(h, args) ==
    IF h.config_cache = Null /\ Len(args) > 0
    THEN [err |-> [kind |-> "KeyError", what |-> "", name |-> args[1]],
          value |-> Null]
    ELSE Descend(h.config_cache, args, 1)

get_global_config(h, args) ==
    IF h.config_cache = Null
    THEN [err |-> [kind |-> "KeyError", what |-> "",
                   name |-> IF Len(args) = 0 THEN "None" ELSE args[1]],
          value |-> Null]
    ELSE Descend(h.config_cache, args, 1)

----------------------------------------------------------------------------
(* toplevel.set_default_config(modules, params, config=file_config,        *)
(* validate=validate); file_config is Null when no document is given.      *)
(* Returns the globals afterwards, the exception raised, the tree and the  *)
(* argument source as the call leaves it.                                  *)

\* set_default_config that publishes whatever the argument walk left
set_default_config_ignores_walk_error(h, modules, params, file_config, validate) ==
    LET defaults == assemble_default_config(modules)
        base     == IF file_config = Null THEN defaults.config
                    ELSE overlay_config(defaults.config, file_config)
        filled   == fill_in_arguments(base, modules, params)
    IN
    IF defaults.err # NoError
    THEN [h |-> h, err |-> defaults.err, config |-> Null, params |-> params]
    ELSE [h |-> set_global_config(h, filled.config).h, err |-> NoError,
          config |-> filled.config, params |-> filled.args]

\* set_default_config that publishes before it validates
set_default_config_publishes_unvalidated(h, modules, params, file_config, validate) ==
    LET defaults == assemble_default_config(modules)
        base     == IF file_config = Null THEN defaults.config
                    ELSE overlay_config(defaults.config, file_config)
        filled   == fill_in_arguments(base, modules, params)
        mod      == modules[Len(modules)]
        checked  == IF validate /\ Len(modules) > 0
                       /\ mod.check_config # "none"
                    THEN CheckConfig(mod, filled.config.map[mod.config_name.str],
                                     mod.config_name.str)
                    ELSE NoError
    IN
    IF defaults.err # NoError
    THEN [h |-> h, err |-> defaults.err, config |-> Null, params |-> params]
    ELSE IF filled.err # NoError
    THEN [h |-> h, err |-> filled.err, config |-> Null,
          params |-> filled.args]
    ELSE [h |-> set_global_config(h, filled.config).h, err |-> checked,
          config |-> IF checked = NoError THEN filled.config ELSE Null,
          params |-> filled.args]

\* set_default_config after the defaults are assembled: the document is
\* overlaid on them and the arguments are filled in; the exception raised
\* so far, the tree, and the argument source as the walk has left it
OverlaidAndFilled(modules, params, file_config, defaults) ==
    IF defaults.err # NoError
    THEN [err |-> defaults.err, config |-> Null, args |-> params]
    ELSE fill_in_arguments(IF file_config = Null THEN defaults.config
                           ELSE overlay_config(defaults.config, file_config),
                           modules, params)

\* the end of set_default_config: the validation of the filled tree, and
\* yakonfig.set_global_config(base_config) when nothing was raised
ValidatedAndPublished(h, modules, validate, filled) ==
    LET raise(e) == [h |-> h, err |-> e, config |-> Null,
                     params |-> filled.args]
        mod      == modules[Len(modules)]
        checked  == IF validate /\ Len(modules) > 0
                       /\ mod.check_config # "none"
                    THEN CheckConfig(mod, filled.config.map[mod.config_name.str],
                                     mod.config_name.str)
                    ELSE NoError
    IN
    IF filled.err # NoError THEN raise(filled.err)
    ELSE IF checked # NoError THEN raise(checked)
    ELSE [h |-> set_global_config(h, filled.config).h, err |-> NoError,
          config |-> filled.config, params |-> filled.args]

set_default_config(h, modules, params, file_config, validate) ==
    ValidatedAndPublished(h, modules, validate,
        OverlaidAndFilled(modules, params, file_config,
                          assemble_default_config(modules)))

\* toplevel.parse_args(parser, modules, args), where parser.parse_args(args)
\* returns `namespace`: the globals afterwards, the exception raised, the
\* tree published, the value returned (the namespace, as the call leaves
\* it) and its vars().  A ConfigurationError of the
\* validation leaves through parser.error, which exits with status 2.
\* parse_args after collect_add_argparse (the walk `collected`), the
\* parsing of the command line and the assembly of the defaults: the file
\* --config names is read and overlaid, the arguments are filled in; the
\* exception raised so far and the tree
ReadAndFilled(modules, namespace, collected, defaults) ==
    LET raise(e)    == [err |-> e, config |-> Null, args |-> namespace.vars]
        config_file == IF "config" \in KeysOf(namespace.vars)
                       THEN namespace.vars.map["config"] ELSE Null
    IN
    IF collected.err # NoError THEN raise(collected.err)
    ELSE IF defaults.err # NoError THEN raise(defaults.err)
    ELSE IF config_file # Null /\ config_file.tag # "Str"
    THEN raise([kind |-> "TypeError", what |-> "open", name |-> ""])
    ELSE IF config_file # Null /\ config_file.str \notin DOMAIN FileSystem
    THEN raise([kind |-> "IOError", what |-> "open", name |-> config_file.str])
    ELSE fill_in_arguments(IF config_file = Null THEN defaults.config
                           ELSE overlay_config(defaults.config,
                                               FileSystem[config_file.str]),
                           modules, namespace.vars)

\* the end of parse_args: the validation of the filled tree, whose
\* ConfigurationError is relayed to parser.error, and
\* yakonfig.set_global_config(config) when nothing was raised
RelayedAndPublished(h, modules, namespace, filled) ==
    LET raise(e) == [h |-> h, err |-> e, config |-> Null, value |-> Null,
                     params |-> filled.args]
        mod      == modules[Len(modules)]
        checked  == IF Len(modules) > 0 /\ mod.check_config # "none"
                    THEN CheckConfig(mod,
                             filled.config.map[mod.config_name.str],
                             mod.config_name.str)
                    ELSE NoError
    IN
    IF filled.err # NoError THEN raise(filled.err)
    ELSE IF checked.kind = "ConfigurationError"
    THEN raise([kind |-> "SystemExit",
                what |-> "parser.error: " \o checked.what \o " "
                         \o checked.name,
                name |-> "2"])
    ELSE IF checked # NoError THEN raise(checked)
    ELSE [h |-> set_global_config(h, filled.config).h, err |-> NoError,
          config |-> filled.config, value |-> Namespace(filled.args),
          params |-> filled.args]

parse_args(h, modules, namespace) ==
    RelayedAndPublished(h, modules, namespace,
        ReadAndFilled(modules, namespace,
                      walk_config(EmptyMap, modules, "add_arguments", FALSE,
                                  EmptyMap),
                      assemble_default_config(modules)))

----------------------------------------------------------------------------
(* set_default_config on the objects the caller holds: every module's      *)
(* default_config, the document and the argument source are dicts of the   *)
(* heap before the call, and the heap after the call tells what the call   *)
(* has written into them and which dicts the tree published is made of.    *)

\* what the caller of set_default_config(modules, params, config=...) holds
Stored(modules, params, file_config) ==
    LET ds  == StoreDefaults(<<>>, ModulesOf(modules), <<>>)
        doc == IF file_config = Null
               THEN [heap |-> ds.heap, cell |-> Null]
               ELSE Store(ds.heap, file_config)
        ps  == Store(doc.heap, params)
    IN  [heap |-> ps.heap, defaults |-> ds.defaults, config |-> doc.cell,
         params |-> ps.cell]

\* overlay_config on cells: a new dict where both operands are dicts; a
\* value it copies or inserts is bound, not copied
RECURSIVE overlay_config_on_heap(_, _, _)
RECURSIVE OverlayItems(_, _, _, _, _)
overlay_config_on_heap(heap, c0, c1) ==
    IF ~IsRef(c0) \/ ~IsRef(c1) THEN [heap |-> heap, cell |-> c1]
    ELSE LET result == Len(heap) + 1
         IN  [heap |-> OverlayItems(Append(heap, NoItems), result, c0.id,
                                    c1.id,
                                    DOMAIN heap[c0.id] \cup DOMAIN heap[c1.id]),
              cell |-> Ref(result)]

OverlayItems(heap, result, b, o, keys) ==
    IF keys = {} THEN heap
    ELSE
    LET k    == CHOOSE x \in keys : TRUE
        rest == keys \ {k}
        bind(h, cell) == [h EXCEPT ![result] = (k :> cell) @@ @]
    IN
    IF k \notin DOMAIN heap[o]
    THEN OverlayItems(bind(heap, heap[b][k]), result, b, o, rest)
    ELSE IF heap[o][k] = Null
    THEN OverlayItems(heap, result, b, o, rest)
    ELSE IF k \in DOMAIN heap[b]
    THEN LET r == overlay_config_on_heap(heap, heap[b][k], heap[o][k])
         IN  OverlayItems(bind(r.heap, r.cell), result, b, o, rest)
    ELSE OverlayItems(bind(heap, heap[o][k]), result, b, o, rest)

\* the end of set_default_config on the heap, `filled` being what the
\* argument walk left of the tree at base: the validation, and the cell of
\* the tree that is published
ValidatedOnHeap(modules, validate, base, filled) ==
    LET mod       == modules[Len(modules)]
        checked   == IF validate /\ Len(modules) > 0
                        /\ mod.check_config # "none"
                     THEN CheckConfig(mod,
                            Reify(filled.heap,
                                  filled.heap[base.cell.id][mod.config_name.str]),
                            mod.config_name.str)
                     ELSE NoError
    IN
    IF filled.err # NoError
    THEN [heap |-> filled.heap, err |-> filled.err, published |-> Null]
    ELSE IF checked # NoError
    THEN [heap |-> filled.heap, err |-> checked, published |-> Null]
    ELSE [heap |-> filled.heap, err |-> NoError, published |-> base.cell]

\* set_default_config on the heap from the overlaid tree at base on: the
\* argument walk, then the end
FilledOnHeap(defaults, modules, params, validate, base) ==
    ValidatedOnHeap(modules, validate, base,
                    WalkFrom(base.heap, base.cell.id, modules, 1,
                             "arguments", "", TRUE, params.id, defaults,
                             <<>>))

\* set_default_config(modules, params, config=file_config) on the heap:
\* the heap afterwards, the exception raised and the cell of the tree that
\* was published (Null if none was)
set_default_config_on_heap(heap, defaults, modules, params, file_config, validate) ==
    LET root      == Len(heap) + 1
        assembled == WalkFrom(Append(heap, NoItems), root, modules, 1,
                              "defaults", "", FALSE, 0, defaults, <<>>)
    IN
    IF assembled.err # NoError
    THEN [heap |-> assembled.heap, err |-> assembled.err, published |-> Null]
    ELSE FilledOnHeap(defaults, modules, params, validate,
                      IF file_config = Null
                      THEN [heap |-> assembled.heap, cell |-> Ref(root)]
                      ELSE overlay_config_on_heap(assembled.heap, Ref(root),
                                                  file_config))


\* toplevel.check_toplevel_config(what, who): the exception raised and
\* what what.check_config was called with (Null if it was not called)
check_toplevel_config(h, what, who) ==
    LET config_name == what.config_name.str
        got         == get_global_config(h, <<>>)
        config      == got.value
    IN  IF got.err # NoError
        THEN [err |-> got.err, checked |-> Null]
        ELSE IF config_name \notin KeysOf(config)
        THEN [err |-> ConfigurationError(
                        who \o " requires top-level configuration for",
                        config_name),
              checked |-> Null]
        ELSE IF what.check_config # "none"
        THEN [err |-> CheckConfig(what, config.map[config_name], config_name),
              checked |-> [config |-> config.map[config_name],
                           name |-> config_name]]
        ELSE [err |-> NoError, checked |-> Null]

----------------------------------------------------------------------------
(* The scoped override: toplevel.defaulted_config on top of                *)
(* yakonfig._temporary_config.  A frame is one use of the context manager: *)
(* where it stands (pc) and the four locals old_cc, old_cfp, old_rao,      *)
(* old_rad of _temporary_config (old).                                     *)

\* _temporary_config that reads the globals after it has cleared them
temporary_config_enter_saves_cleared(h) ==
    [old |-> clear_global_config(h), h |-> clear_global_config(h)]

\* _temporary_config up to its yield: the locals it keeps and the globals
\* it leaves
temporary_config_enter(h) == [old |-> h, h |-> clear_global_config(h)]

\* _temporary_config whose exit leaves the current tree where it is
temporary_config_exit_keeps_tree(h, old) ==
    Holder(h.config_cache, old.config_file_path, old.runtime_args_object,
           old.runtime_args_dict)

\* _temporary_config whose exit forgets the runtime-argument bindings
temporary_config_exit_tree_only(h, old) ==
    Holder(old.config_cache, old.config_file_path, h.runtime_args_object,
           h.runtime_args_dict)

\* _temporary_config after its yield, reached when the block ends normally
temporary_config_exit(h, old) ==
    Holder(old.config_cache, old.config_file_path, old.runtime_args_object,
           old.runtime_args_dict)

\* _temporary_config when the exception of the block (or of the assembly)
\* is thrown into it at the yield: nothing catches it, the statements after
\* the yield do not run
temporary_config_throw(h, old) == h

\* defaulted_config up to its yield
defaulted_config_enter(h, in) ==
    LET t == temporary_config_enter(h)
        r == set_default_config(t.h, in.modules, in.params, in.config,
                                in.validate)
    IN  IF r.err # NoError
        THEN [pc |-> "raised", old |-> t.old, err |-> r.err,
              h |-> temporary_config_throw(r.h, t.old), yielded |-> Null]
        ELSE [pc |-> "block", old |-> t.old, err |-> NoError, h |-> r.h,
              yielded |-> get_global_config(r.h, <<>>).value]


----------------------------------------------------------------------------
(* The modules the model is run on.  Scalars are numbered: 1 is a default  *)
(* value, 2 a value of the document, 3 a value of the argument source.     *)

\* a module with defaults and runtime_keys, like a_module of the package
\* docstring; one default is itself a mapping
top ==
    Module(Name("top"), M("msg" :> S(1) @@ "opts" :> M("x" :> S(1))), <<>>,
           << <<"cli_msg", "msg">>, <<"cli_opts", "opts">> >>, "none")

\* a sub-module whose check_config rejects its configuration
c == Module(Name("c"), M("k" :> S(1)), <<>>, << <<"cli_k", "k">> >>, "raise")

\* a parent with the inherited Configurable.check_config, like an AutoFactory
p == Module(Name("p"), EmptyMap, <<c>>, <<>>, "pass")

\* a top-level module whose check_config rejects its configuration
v == Module(Name("v"), EmptyMap, <<>>, <<>>, "raise")

\* a parent whose default_config already has the key of its sub-module
q == Module(Name("q"), M("c" :> S(1)), <<c>>, <<>>, "none")

\* a module whose default_config is not a mapping
w == Module(Name("w"), S(1), <<>>, <<>>, "none")

\* a module without config_name (or with config_name = None)
anon == Module(Null, M("k" :> S(1)), <<>>, <<>>, "none")

\* a module whose config_name is the empty string
blank == Module(Name(""), M("k" :> S(1)), <<>>, <<>>, "none")

\* a module whose default_config is a list of pairs
listed ==
    Module(Name("listed"), L(<<L(<<Name("k"), S(1)>>)>>), <<>>, <<>>, "none")

\* a module whose default_config is a list with an item that is no pair
halved ==
    Module(Name("halved"), L(<<L(<<Name("a"), S(1)>>), S(3)>>), <<>>, <<>>,
           "none")

\* a module with two arguments for one key; it has the config_name of v,
\* for which the documents have a mapping
twice ==
    Module(Name("v"), EmptyMap, <<>>,
           << <<"cli_opts", "x">>, <<"cli_k", "x">> >>, "none")

\* a parent one of whose arguments goes to the key of its sub-module c;
\* it has the config_name of p, for which the documents have a mapping
binder ==
    Module(Name("p"), EmptyMap, <<c>>, << <<"cli_opts", "c">> >>, "pass")

\* a module whose default_config is a string
worded == Module(Name("worded"), Name("ab"), <<>>, <<>>, "none")

\* yakonfig itself, as a module: --config FILE, and no default_config
yakonfig ==
    Module(Name("yakonfig"), Absent, <<>>, << <<"config", "config">> >>, "none")

\* a module named like top whose check_config rejects its configuration
strict == Module(Name("top"), EmptyMap, <<>>, <<>>, "raise")

\* the callables of the factory tests, as create_configurable sees them
configurable_defaults ==
    AutoConfigured("configurable_defaults", <<>>,
                   M("a" :> S(1) @@ "b" :> S(2) @@ "c" :> S(3)))

configurable_services ==
    AutoConfigured("configurable_services", <<"abc", "xyz">>, EmptyMap)

configurable_both ==
    AutoConfigured("configurable_both", <<"abc", "xyz">>,
                   M("a" :> S(1) @@ "b" :> S(2) @@ "c" :> S(3)))

\* the arguments of one set_default_config / defaulted_config call
Input(modules, params, config, validate) ==
    [modules |-> modules, params |-> params, config |-> config,
     validate |-> validate]

----------------------------------------------------------------------------
(* Spec: the holder, driven by any sequence of its operations and by the   *)
(* scoped overrides of MaxScopes frames, entered and left in any order.    *)

MaxScopes == 2
Scope == 1 .. MaxScopes

\* a frame that holds nothing: before the generator is created ("idle") and
\* after it has finished ("done") or let an exception through ("raised")
NoFrame(pc) == [pc |-> pc, old |-> EmptyHolder]

\* what the scoped overrides and the top-level calls of Spec are given
HolderInputs ==
    { Input(<<top>>, M("cli_msg" :> S(3)), M("top" :> M("opts" :> Null)), TRUE),
      Input(<<top, v>>, EmptyMap, Null, TRUE) }

\* In Spec, ret tells whether the call just made was a step of a scoped
\* override, and which: Idle after any other call.
Idle == [op |-> "none"]
Returned(op, s, err) == [op |-> op, scope |-> s, err |-> err.kind]

Init ==
    /\ config_cache = Null
    /\ config_file_path = Null
    /\ runtime_args_object = Null
    /\ runtime_args_dict = Null
    /\ scopes = [s \in Scope |-> NoFrame("idle")]
    /\ call = Idle
    /\ ret = Idle

\* the globals become h
Become(h) ==
    /\ config_cache' = h.config_cache
    /\ config_file_path' = h.config_file_path
    /\ runtime_args_object' = h.runtime_args_object
    /\ runtime_args_dict' = h.runtime_args_dict

SetRuntimeArgsObject ==
    \E args \in {Namespace(M("config" :> S(3))), Null} :
        /\ Become(set_runtime_args_object(H, args))
        /\ ret' = Idle
        /\ UNCHANGED <<scopes, call>>

SetRuntimeArgsDict ==
    \E args \in {M("config" :> S(3)), EmptyMap} :
        /\ Become(set_runtime_args_dict(H, args))
        /\ ret' = Idle
        /\ UNCHANGED <<scopes, call>>

ClearGlobalConfig ==
    /\ Become(clear_global_config(H))
    /\ ret' = Idle
    /\ UNCHANGED <<scopes, call>>

SetGlobalConfig ==
    \E x \in {Name("P"), Name("Q"), M("top" :> M("msg" :> S(2))), S(2)} :
        LET r == set_global_config(H, x)
        IN  /\ Become(r.h)
            /\ ret' = Idle
            /\ UNCHANGED <<scopes, call>>

GetGlobalConfig ==
    \E args \in {<<>>, <<"top">>, <<"top", "msg">>, <<"nope">>} :
        /\ ret' = Idle
        /\ UNCHANGED <<holder, scopes, call>>

SetDefaultConfig ==
    \E in \in HolderInputs :
        LET r == set_default_config(H, in.modules, in.params, in.config,
                                    in.validate)
        IN  /\ Become(r.h)
            /\ ret' = Idle
            /\ UNCHANGED <<scopes, call>>

\* parse_args on a command line that names the file P and sets msg, and on
\* a forest whose last module rejects its configuration
ParseArgs ==
    \E in \in
        { [modules |-> <<yakonfig, top>>,
           namespace |-> Namespace(M("config" :> Name("P")
                                     @@ "cli_msg" :> S(3)))],
          [modules |-> <<top, v>>, namespace |-> Namespace(EmptyMap)] } :
        /\ Become(parse_args(H, in.modules, in.namespace).h)
        /\ ret' = Idle
        /\ UNCHANGED <<scopes, call>>

\* with defaulted_config(...): up to the start of the block
EnterScope(s) ==
    /\ scopes[s].pc = "idle"
    /\ \E in \in HolderInputs :
        \E r \in {defaulted_config_enter(H, in)} :
            /\ Become(r.h)
            /\ scopes' = [scopes EXCEPT ![s] =
                  IF r.pc = "block"
                  THEN [pc |-> "block", old |-> r.old]
                  ELSE NoFrame("raised")]
            /\ ret' = Returned("enter", s, r.err)
    /\ UNCHANGED call

\* the block ends normally
ExitScope(s) ==
    /\ scopes[s].pc = "block"
    /\ Become(temporary_config_exit(H, scopes[s].old))
    /\ scopes' = [scopes EXCEPT ![s] = NoFrame("done")]
    /\ ret' = Returned("exit", s, NoError)
    /\ UNCHANGED call

\* the block raises
RaiseInScope(s) ==
    /\ scopes[s].pc = "block"
    /\ Become(temporary_config_throw(H, scopes[s].old))
    /\ scopes' = [scopes EXCEPT ![s] = NoFrame("raised")]
    /\ ret' = Returned("exit", s, [kind |-> "Exception"])
    /\ UNCHANGED call

Next ==
    \/ SetRuntimeArgsObject
    \/ SetRuntimeArgsDict
    \/ ClearGlobalConfig
    \/ SetGlobalConfig
    \/ GetGlobalConfig
    \/ SetDefaultConfig
    \/ ParseArgs
    \/ \E s \in Scope : EnterScope(s)
    \/ \E s \in Scope : ExitScope(s)
    \/ \E s \in Scope : RaiseInScope(s)

Spec == Init /\ [][Next]_vars


----------------------------------------------------------------------------
(* SpecHolder: the holder alone, driven by any sequence of its operations; *)
(* call is the call just made and ret what it returned or raised.          *)

\* what set_global_config is called with: paths of files that exist, of a
\* file that does not, the empty path, mappings, a stream and a scalar
GlobalSources ==
    { Name("P"), Name("Q"), Name("X"), Name(""),
      M("top" :> M("msg" :> S(3))), EmptyMap,
      Stream(M("top" :> M("msg" :> S(1)))), S(2) }

\* the argument lists get_global_config is called with
GlobalPaths ==
    { <<>>, <<"top">>, <<"top", "msg">>, <<"nope">>, <<"top", "nope">>,
      <<"top", "msg", "deeper">> }

InitHolder ==
    /\ config_cache = Null
    /\ config_file_path = Null
    /\ runtime_args_object = Null
    /\ runtime_args_dict = Null
    /\ scopes = [s \in Scope |-> NoFrame("idle")]
    /\ call = Idle
    /\ ret = Idle

\* what a call of the holder gave back
Outcome(op, err, value, warned) ==
    [op |-> op, err |-> err, value |-> value, warned |-> warned]

CallSetRuntimeArgsObject ==
    \E args \in {Namespace(M("config" :> S(3))), Null} :
        /\ Become(set_runtime_args_object(H, args))
        /\ call' = [op |-> "set_runtime_args_object", arg |-> args]
        /\ ret' = Outcome("set_runtime_args_object", NoError, Null, FALSE)
        /\ UNCHANGED scopes

CallSetRuntimeArgsDict ==
    \E args \in {M("config" :> S(3)), EmptyMap} :
        /\ Become(set_runtime_args_dict(H, args))
        /\ call' = [op |-> "set_runtime_args_dict", arg |-> args]
        /\ ret' = Outcome("set_runtime_args_dict", NoError, Null, FALSE)
        /\ UNCHANGED scopes

CallClearGlobalConfig ==
    /\ Become(clear_global_config(H))
    /\ call' = [op |-> "clear_global_config"]
    /\ ret' = Outcome("clear_global_config", NoError, Null, FALSE)
    /\ UNCHANGED scopes

CallSetGlobalConfig ==
    \E x \in GlobalSources :
        LET r == set_global_config(H, x)
        IN  /\ Become(r.h)
            /\ call' = [op |-> "set_global_config", arg |-> x]
            /\ ret' = Outcome("set_global_config", r.err, r.value, r.warned)
            /\ UNCHANGED scopes

CallGetGlobalConfig ==
    \E args \in GlobalPaths :
        LET r == get_global_config(H, args)
        IN  /\ call' = [op |-> "get_global_config", args |-> args]
            /\ ret' = Outcome("get_global_config", r.err, r.value, FALSE)
            /\ UNCHANGED <<holder, scopes>>

CallCheckToplevelConfig ==
    \E what \in {top, strict, v} :
        LET r == check_toplevel_config(H, what, "caller")
        IN  /\ call' = [op |-> "check_toplevel_config", what |-> what,
                        who |-> "caller"]
            /\ ret' = [op |-> "check_toplevel_config", err |-> r.err,
                       checked |-> r.checked]
            /\ UNCHANGED <<holder, scopes>>

NextHolder ==
    \/ CallSetRuntimeArgsObject
    \/ CallSetRuntimeArgsDict
    \/ CallClearGlobalConfig
    \/ CallSetGlobalConfig
    \/ CallGetGlobalConfig
    \/ CallCheckToplevelConfig

SpecHolder == InitHolder /\ [][NextHolder]_vars

----------------------------------------------------------------------------
(* SpecOverlay: overlay_config applied once to every pair of trees drawn   *)
(* from OverlayValues.                                                     *)

MaxScalar == 3

\* every function from a subset of K to V
PartialFns(K, V) == UNION {[D -> V] : D \in SUBSET K}

OverlayLeaves == {Null, L(<<S(1)>>)} \cup {S(i) : i \in 1 .. MaxScalar}

\* leaves and the mappings of leaves over the keys a and b
OverlayLevel1 ==
    OverlayLeaves \cup {M(f) : f \in PartialFns({"a", "b"}, OverlayLeaves)}

\* the operands: leaves, and mappings over a and b that nest under a
OverlayValues ==
    OverlayLeaves \cup
    {M(f) : f \in {g \in PartialFns({"a", "b"}, OverlayLevel1) :
                       "b" \in DOMAIN g => g["b"] \in OverlayLeaves}}

InitOverlay ==
    /\ config_cache = Null
    /\ config_file_path = Null
    /\ runtime_args_object = Null
    /\ runtime_args_dict = Null
    /\ scopes = [s \in Scope |-> NoFrame("idle")]
    /\ call \in {[op |-> "overlay_config", c0 |-> b, c1 |-> o] :
                    b \in OverlayValues, o \in OverlayValues}
    /\ ret = Idle

CallOverlay ==
    /\ call.op = "overlay_config"
    /\ ret = Idle
    /\ ret' = [op |-> "overlay_config",
               value |-> overlay_config(call.c0, call.c1)]
    /\ UNCHANGED <<holder, scopes, call>>

NextOverlay == CallOverlay

SpecOverlay == InitOverlay /\ [][NextOverlay]_vars


----------------------------------------------------------------------------
(* SpecAssembly: one call of set_default_config, or of fill_in_arguments,  *)
(* on every module forest, document and argument source of the sets below, *)
(* made while the holder is set.                                           *)

MaxModules == 2

\* the sequences of at most n top-level modules
RECURSIVE ForestsUpTo(_)
ForestsUpTo(n) ==
    IF n = 0 THEN {<<>>}
    ELSE LET shorter == ForestsUpTo(n - 1)
         IN  shorter \cup {Append(f, m) : f \in shorter, m \in {top, p, v}}

Forests == ForestsUpTo(MaxModules)

\* partial functions on K whose value at k is drawn from R[k]
PartialFnsIn(K, R) ==
    {f \in PartialFns(K, UNION {R[k] : k \in K}) :
        \A k \in DOMAIN f : f[k] \in R[k]}

\* what a document may say for the module top: null, a scalar, or a mapping
\* that sets, deletes or leaves out msg and opts
DocTop ==
    {Null, S(2)} \cup
    {M(f) : f \in PartialFnsIn({"msg", "opts"},
                "msg" :> {Null, S(2), M("y" :> S(2))}
                @@ "opts" :> {Null, M("y" :> S(2))})}

\* for the module p and its sub-module c
DocP ==
    {Null, S(2)} \cup
    {M(f) : f \in PartialFns({"c"},
                {Null, S(2)} \cup
                {M(g) : g \in PartialFns({"k"}, {Null, S(2)})})}

\* the parsed documents
Documents ==
    {M(f) : f \in PartialFnsIn({"top", "p", "v"},
                "top" :> DocTop @@ "p" :> DocP
                @@ "v" :> {Null, EmptyMap})}

\* the argument sources
Params ==
    {M(f) : f \in PartialFnsIn({"cli_msg", "cli_opts", "cli_k"},
                "cli_msg" :> {Null, S(3)} @@ "cli_opts" :> {M("z" :> S(3))}
                @@ "cli_k" :> {S(3)})}

\* the holder when the call is made
SetHolder ==
    Holder(FileSystem["P"], Name("P"), Null, M("config" :> S(3)))

InitAssembly ==
    /\ config_cache = SetHolder.config_cache
    /\ config_file_path = SetHolder.config_file_path
    /\ runtime_args_object = SetHolder.runtime_args_object
    /\ runtime_args_dict = SetHolder.runtime_args_dict
    /\ scopes = [s \in Scope |-> NoFrame("idle")]
    /\ call = Idle
    /\ ret = Idle

CallSetDefaultConfig ==
    /\ ret = Idle
    /\ \E ms \in Forests \cup {<<twice>>, <<top, twice>>, <<binder>>,
                               <<top, twice, binder>>},
          ps \in Params, d \in Documents \cup {Null}, val \in BOOLEAN :
          \E r \in {set_default_config(H, ms, ps, d, val)},
             mem \in {Stored(ms, ps, d)} :
              /\ Become(r.h)
              /\ call' = [op |-> "set_default_config",
                          in |-> Input(ms, ps, d, val), mem |-> mem]
              /\ ret' = [op |-> "set_default_config", err |-> r.err,
                         config |-> r.config, params |-> r.params,
                         on_heap |-> set_default_config_on_heap(mem.heap,
                                        mem.defaults, ms, mem.params,
                                        mem.config, val)]
    /\ UNCHANGED scopes

\* what parser.parse_args returns: the arguments of the modules, and
\* --config not given, given without a file, with the file P or with a
\* file that does not exist
Namespaces ==
    {Namespace(M(f @@ ps.map)) :
        f \in {[k \in {} |-> Null], "config" :> Null, "config" :> Name("P"),
               "config" :> Name("nofile")},
        ps \in Params}

\* the document parse_args reads for a namespace, Null if it reads none
DocumentOf(namespace) ==
    LET config_file == Get(namespace.vars, "config")
    IN  IF config_file \in {Absent, Null} THEN Null
        ELSE IF config_file.str \in DOMAIN FileSystem
        THEN FileSystem[config_file.str] ELSE Null

\* parse_args; `in` is the set_default_config call it amounts to
CallParseArgs ==
    /\ ret = Idle
    /\ \E ms \in Forests \cup {<<yakonfig, top>>}, ns \in Namespaces :
          \E r \in {parse_args(H, ms, ns)} :
              /\ Become(r.h)
              /\ call' = [op |-> "parse_args", modules |-> ms,
                          namespace |-> ns,
                          in |-> Input(ms, ns.vars, DocumentOf(ns), TRUE)]
              /\ ret' = [op |-> "parse_args", err |-> r.err,
                         config |-> r.config, params |-> r.params]
    /\ UNCHANGED scopes

CallFillInArguments ==
    /\ ret = Idle
    /\ \E d \in Documents,
          ms \in Forests \cup {<<twice>>, <<top, twice>>, <<binder>>,
                               <<top, twice, binder>>},
          ps \in Params :
          LET r == fill_in_arguments(d, ms, ps)
          IN  /\ call' = [op |-> "fill_in_arguments", config |-> d,
                          modules |-> ms, args |-> ps]
              /\ ret' = [op |-> "fill_in_arguments", err |-> r.err,
                         config |-> r.config, visited |-> r.visited,
                         args |-> r.args]
    /\ UNCHANGED <<holder, scopes>>

\* the forests the walker is called on directly: with duplicate names, a
\* default that hides a sub-module, a visitor that raises and modules
\* without a usable config_name
RECURSIVE WalkForestsUpTo(_)
WalkForestsUpTo(n) ==
    IF n = 0 THEN {<<>>}
    ELSE LET shorter == WalkForestsUpTo(n - 1)
         IN  shorter \cup {Append(f, m) : f \in shorter,
                                          m \in {top, p, q, w, anon, blank}}

WalkForests == WalkForestsUpTo(MaxModules)

\* the mappings the walker is called on directly
WalkConfigs ==
    {M(f) : f \in PartialFnsIn({"top", "p", "q", ""},
                "top" :> {EmptyMap, S(2)}
                @@ "p" :> {M("c" :> EmptyMap)}
                @@ "q" :> {EmptyMap, M("c" :> M("k" :> S(2)))}
                @@ "" :> {EmptyMap})}

\* the argument source of the direct walks with the arguments visitor
WalkArgs == M("cli_msg" :> S(3) @@ "cli_k" :> S(3))

\* assemble_default_config, also on forests with a default_config that is
\* not a mapping but that dict() may take: a list, a string
CallAssembleDefaultConfig ==
    /\ ret = Idle
    /\ \E ms \in WalkForests \cup {<<listed>>, <<listed, top>>, <<worded>>,
                                    <<top, worded>>, <<halved>>,
                                    <<top, halved>>} :
          LET r == assemble_default_config(ms)
          IN  /\ call' = [op |-> "assemble_default_config", modules |-> ms]
              /\ ret' = [op |-> "assemble_default_config", err |-> r.err,
                         config |-> r.config, visited |-> r.visited,
                         args |-> r.args]
    /\ UNCHANGED <<holder, scopes>>

\* _walk_config(config, modules, f, required=required)
CallWalkConfig ==
    /\ ret = Idle
    /\ \E d \in WalkConfigs, ms \in WalkForests,
          f \in {"defaults", "arguments"}, required \in BOOLEAN :
          LET r == walk_config(d, ms, f, required, WalkArgs)
          IN  /\ call' = [op |-> "_walk_config", config |-> d, modules |-> ms,
                          f |-> f, required |-> required]
              /\ ret' = [op |-> "_walk_config", err |-> r.err,
                         config |-> r.config, visited |-> r.visited,
                         args |-> r.args]
    /\ UNCHANGED <<holder, scopes>>

\* the parent mappings check_subconfig is called with
SubconfigParents ==
    {M(f) : f \in PartialFnsIn({"c", "top", "other"},
                "c" :> {Null, S(2), EmptyMap, M("k" :> S(2))}
                @@ "top" :> {M("msg" :> S(2))}
                @@ "other" :> {S(2)})}

CallCheckSubconfig ==
    /\ ret = Idle
    /\ \E d \in SubconfigParents, sub \in {c, top, p} :
          LET r == check_subconfig(d, "p", sub)
          IN  /\ call' = [op |-> "check_subconfig", config |-> d,
                          name |-> "p", sub |-> sub]
              /\ ret' = [op |-> "check_subconfig", err |-> r.err,
                         config |-> r.config, checked |-> r.checked]
    /\ UNCHANGED <<holder, scopes>>

\* the auto-configured objects the factory is asked about
Configurables ==
    {configurable_defaults, configurable_services, configurable_both}

\* the mappings of the parent: without an entry for the object, or with
\* one that has some of the keys a, b, c (defaults), abc (a service) and
\* ZZZ
ParentConfigs(configurable) ==
    {EmptyMap} \cup
    {M(configurable.config_name :> M(f)) :
        f \in PartialFns({"a", "b", "c", "abc", "ZZZ"}, {S(42)})}

\* the factories: one that offers the services abc and xyz, one that
\* offers none
Factories == {M("abc" :> S(7) @@ "xyz" :> S(8)), EmptyMap}

\* the keyword arguments of create
Keywords == {M(f) : f \in PartialFns({"b", "xyz"}, {S(43)})}

CallAutoCheckConfig ==
    /\ ret = Idle
    /\ \E configurable \in Configurables :
       \E d \in ParentConfigs(configurable) :
          /\ call' = [op |-> "AutoConfigured.check_config",
                      configurable |-> configurable, config |-> d]
          /\ ret' = [op |-> "AutoConfigured.check_config",
                     err |-> AutoConfigured_check_config(configurable, d)]
    /\ UNCHANGED <<holder, scopes>>

CallCreate ==
    /\ ret = Idle
    /\ \E self \in Factories, configurable \in Configurables,
          kwargs \in Keywords :
       \E d \in ParentConfigs(configurable) :
          LET r == AutoFactory_create(self, d, configurable, kwargs)
          IN  /\ call' = [op |-> "AutoFactory.create", self |-> self,
                          config |-> d, configurable |-> configurable,
                          kwargs |-> kwargs]
              /\ ret' = [op |-> "AutoFactory.create", err |-> r.err,
                         called |-> r.called]
    /\ UNCHANGED <<holder, scopes>>

NextAssembly ==
    \/ CallAutoCheckConfig
    \/ CallCreate
    \/ CallSetDefaultConfig
    \/ CallParseArgs
    \/ CallFillInArguments
    \/ CallAssembleDefaultConfig
    \/ CallWalkConfig
    \/ CallCheckSubconfig

SpecAssembly == InitAssembly /\ [][NextAssembly]_vars

----------------------------------------------------------------------------
(* Claims about overlay_config, checked under SpecOverlay.                 *)

\* the call has been made on (c0, c1)
Overlaid == ret.op = "overlay_config"
OverlaidOn(c0, c1) == Overlaid /\ call.c0 = c0 /\ call.c1 = c1

\* r is the merge of base b and overlay o, stated key by key
RECURSIVE IsReferenceMerge(_, _, _)
IsReferenceMerge(r, b, o) ==
    IF ~IsMapping(b) \/ ~IsMapping(o)
    THEN r = o
    ELSE /\ IsMapping(r)
         /\ KeysOf(r) = (KeysOf(b) \ KeysOf(o))
                           \cup {k \in KeysOf(o) : o.map[k] # Null}
         /\ \A k \in KeysOf(r) :
              IF k \notin KeysOf(o) THEN r.map[k] = b.map[k]
              ELSE IF k \in KeysOf(b)
                   THEN IsReferenceMerge(r.map[k], b.map[k], o.map[k])
                   ELSE r.map[k] = o.map[k]

\* C6: on two Mappings the result is the reference merge: keys of base absent
\* from overlay keep base's value, non-null keys of overlay that base has are
\* merged recursively, non-null keys of overlay that base lacks take overlay's
\* value, and there are no other keys; overlay({a:1,b:2},{b:3}) = {a:1,b:3}
\* and overlay({a:{a:1,b:2}},{a:{b:3}}) = {a:{a:1,b:3}}.
C6_OverlayIsReferenceMerge ==
    /\ Overlaid /\ IsMapping(call.c0) /\ IsMapping(call.c1)
         => IsReferenceMerge(ret.value, call.c0, call.c1)
    /\ OverlaidOn(M("a" :> S(1) @@ "b" :> S(2)), M("b" :> S(3)))
         => ret.value = M("a" :> S(1) @@ "b" :> S(3))
    /\ OverlaidOn(M("a" :> M("a" :> S(1) @@ "b" :> S(2))),
                  M("a" :> M("b" :> S(3))))
         => ret.value = M("a" :> M("a" :> S(1) @@ "b" :> S(3)))

C6_Witness ==
    /\ OverlaidOn(M("a" :> M("a" :> S(1) @@ "b" :> S(2))),
                  M("a" :> M("b" :> S(3))))
    /\ ret.value = M("a" :> M("a" :> S(1) @@ "b" :> S(3)))

\* C7: on two Mappings, a key whose value in overlay is null is absent from
\* the result, whether or not base has it; overlay({a:1,b:2},{b:null}) = {a:1}.
C7_NullDeletesKey ==
    /\ Overlaid /\ IsMapping(call.c0) /\ IsMapping(call.c1)
         => /\ IsMapping(ret.value)
            /\ \A k \in KeysOf(call.c1) :
                 call.c1.map[k] = Null => k \notin KeysOf(ret.value)
    /\ OverlaidOn(M("a" :> S(1) @@ "b" :> S(2)), M("b" :> Null))
         => ret.value = M("a" :> S(1))

C7_Witness ==
    /\ OverlaidOn(M("a" :> S(1) @@ "b" :> S(2)), M("b" :> Null))
    /\ ret.value = M("a" :> S(1))

\* C8: when either operand is not a Mapping the result is the overlay operand
\* verbatim, at the top and at every key the two operands share: a Scalar or
\* Sequence over a Mapping replaces it, a Mapping over a Scalar replaces it,
\* Sequences are not merged; overlay({a:{a:1}},{a:3}) = {a:3}.
C8_NonMappingReplaces ==
    /\ Overlaid /\ (~IsMapping(call.c0) \/ ~IsMapping(call.c1))
         => ret.value = call.c1
    /\ Overlaid /\ IsMapping(call.c0) /\ IsMapping(call.c1)
         => \A k \in KeysOf(call.c0) \cap KeysOf(call.c1) :
              /\ call.c1.map[k] # Null
              /\ ~IsMapping(call.c0.map[k]) \/ ~IsMapping(call.c1.map[k])
              => /\ IsMapping(ret.value)
                 /\ k \in KeysOf(ret.value)
                 /\ ret.value.map[k] = call.c1.map[k]
    /\ OverlaidOn(M("a" :> M("a" :> S(1))), M("a" :> S(3)))
         => ret.value = M("a" :> S(3))

C8_Witness ==
    /\ OverlaidOn(M("a" :> M("a" :> S(1))), M("a" :> S(3)))
    /\ ret.value = M("a" :> S(3))

\* C9: for every Mapping X, overlay(X, {}) equals X.
C9_EmptyOverlayIsIdentity ==
    Overlaid /\ IsMapping(call.c0) /\ call.c1 = EmptyMap
        => ret.value = call.c0

C9_Witness ==
    /\ OverlaidOn(M("a" :> M("a" :> S(1) @@ "b" :> Null) @@ "b" :> S(2)),
                  EmptyMap)
    /\ ret.value = M("a" :> M("a" :> S(1) @@ "b" :> Null) @@ "b" :> S(2))


----------------------------------------------------------------------------
(* Claims about the scoped override, checked under Spec.                   *)

\* scope s takes the step from pc a to pc b
Steps(s, a, b) == scopes[s].pc = a /\ scopes'[s].pc = b

\* C1: a scoped override restores the holder state captured at entry on
\* every abnormal exit, when the block raises and when the assembly run
\* inside the scope raises: after the exception has propagated the four
\* globals are what they were before the scope was entered.
C1_RestoredOnAbnormalExit ==
    [][\A s \in Scope :
         /\ Steps(s, "block", "raised") => H' = scopes[s].old
         /\ Steps(s, "idle", "raised") => H' = H]_vars

\* C2: when a scoped override is entered from any holder state, the state
\* at entry is captured and get_global_config() inside the block returns the
\* tree assembled for the scope; when its block exits normally, the four
\* globals are again what they were at entry, whatever calls the block made.
C2_RestoredOnNormalExit ==
    [][\A s \in Scope :
         /\ Steps(s, "idle", "block") =>
              /\ scopes'[s].old = H
              /\ \E in \in HolderInputs :
                   LET made == set_default_config(EmptyHolder, in.modules,
                                   in.params, in.config, in.validate)
                   IN  /\ made.err = NoError
                       /\ get_global_config(H', <<>>) =
                              [err |-> NoError, value |-> made.config]
         /\ Steps(s, "block", "done") => H' = scopes[s].old]_vars

\* just after a normal exit the holder holds a tree read from the file P, the
\* path P and a runtime-args dict again, none of which the scope's own tree is
C2_Witness ==
    /\ ret = Returned("exit", 1, NoError)
    /\ H = Holder(FileSystem["P"], Name("P"), Null, M("config" :> S(3)))

\* the value is null or has a null-valued key at some depth
RECURSIVE HasNull(_)
HasNull(x) ==
    \/ x = Null
    \/ IsMapping(x) /\ \E k \in KeysOf(x) : HasNull(x.map[k])

\* in the merge r of the mappings b and o no key is null where b and o are
\* both mappings; a value with nulls inside is a value of o stored as it is
RECURSIVE NullsOnlyVerbatim(_, _, _)
NullsOnlyVerbatim(r, b, o) ==
    \A k \in KeysOf(r) :
       /\ r.map[k] # Null
       /\ IF /\ k \in KeysOf(b) /\ k \in KeysOf(o)
             /\ IsMapping(b.map[k]) /\ IsMapping(o.map[k])
          THEN NullsOnlyVerbatim(r.map[k], b.map[k], o.map[k])
          ELSE HasNull(r.map[k]) =>
                 k \in KeysOf(o) /\ r.map[k] = o.map[k]

\* C25 as stated: for a Mapping base without null at any depth, the
\* result, when it is a Mapping, has no null-valued key at any depth.
C25_NoNullStored ==
    (/\ Overlaid
     /\ IsMapping(call.c0) /\ ~HasNull(call.c0)
     /\ IsMapping(ret.value))
    => ~HasNull(ret.value)

\* C25, amended: for a Mapping base without null at any depth, the result,
\* when it is a Mapping, has no null-valued key wherever base and overlay
\* are both Mappings (none at the top level in particular); a Mapping of
\* the overlay stored under a new key, or over a value of base that is not
\* a Mapping, is stored as it is, null-valued keys included.
C25_NoNullStoredWhereMerged ==
    (/\ Overlaid
     /\ IsMapping(call.c0) /\ ~HasNull(call.c0)
     /\ IsMapping(ret.value))
    => /\ IsMapping(call.c1)
       /\ NullsOnlyVerbatim(ret.value, call.c0, call.c1)

\* a null was deleted where both operands are mappings, and another one
\* came in with a mapping stored under a new key
C25_Witness ==
    /\ OverlaidOn(M("b" :> S(1)), M("a" :> M("a" :> Null) @@ "b" :> Null))
    /\ ret.value = M("a" :> M("a" :> Null))

----------------------------------------------------------------------------
(* Claims about the assembly and the walker, checked under SpecAssembly.   *)

\* the modules of a forest in the order the walker reaches them, each with
\* the path of config_names that leads to it
RECURSIVE PreOrder(_, _)
PreOrder(modules, parent) ==
    IF modules = <<>> THEN <<>>
    ELSE LET module == Head(modules)
             path   == Append(parent, IF module.config_name = Null THEN ""
                                  ELSE module.config_name.str)
         IN  <<[path |-> path, module |-> module]>>
             \o PreOrder(module.sub_modules, path)
             \o PreOrder(Tail(modules), parent)

\* the qualified dotted name of a path
RECURSIVE QName(_)
QName(path) ==
    IF Len(path) = 1 THEN path[1]
    ELSE path[1] \o "." \o QName(Tail(path))

\* the value a tree has at a path of keys, Absent when there is none
RECURSIVE At(_, _)
At(tree, path) ==
    IF path = <<>> THEN tree
    ELSE IF IsMapping(tree) /\ Head(path) \in KeysOf(tree)
         THEN At(tree.map[Head(path)], Tail(path))
         ELSE Absent

\* set_default_config or parse_args has returned normally
Assembled ==
    ret.op \in {"set_default_config", "parse_args"} /\ ret.err = NoError

\* the modules of the call's forest, in walk order
Reached ==
    PreOrder(IF call.op = "set_default_config" THEN call.in.modules
             ELSE call.modules, <<>>)

\* the config_names of the sub_modules of a module
SubNames(module) ==
    {module.sub_modules[i].config_name.str : i \in 1..Len(module.sub_modules)}

\* what the document of the call says at a key of a module
DocumentAt(path, key) ==
    IF call.in.config = Null THEN Absent
    ELSE At(call.in.config, Append(path, key))

Entered(args) ==
    {e \in KeysOf(args) :
        /\ args.map[e] # Null
        /\ \E j \in 1..Len(Reached) :
             \E i \in 1..Len(Reached[j].module.runtime_keys) :
                /\ Reached[j].module.runtime_keys[i][1] = e
                /\ Reached[j].module.runtime_keys[i][2]
                     \in SubNames(Reached[j].module)}

C4_EveryCheckConfigRuns ==
    (Assembled /\ call.in.validate) =>
      \A j \in 1..Len(Reached) :
        CheckConfig(Reached[j].module, At(ret.config, Reached[j].path),
                    QName(Reached[j].path)) = NoError

\* C5: for a forest whose default assembly succeeds, set_default_config
\* never fails with ProgrammerError, whatever the document and the
\* argument source are.
C5_NoProgrammerErrorFromData ==
    (/\ ret.op = "set_default_config"
     /\ assemble_default_config(call.in.modules).err = NoError)
    => ret.err.kind # "ProgrammerError"

\* the number of modules of a forest
RECURSIVE Size(_)
Size(modules) ==
    IF modules = <<>> THEN 0
    ELSE 1 + Size(Head(modules).sub_modules) + Size(Tail(modules))

\* the forest of the first n modules of a forest, in walk order
RECURSIVE FirstOf(_, _)
FirstOf(modules, n) ==
    IF n <= 0 \/ modules = <<>> THEN <<>>
    ELSE LET module == Head(modules)
         IN  <<[module EXCEPT
                  !.sub_modules = FirstOf(module.sub_modules, n - 1)]>>
             \o FirstOf(Tail(modules),
                        n - 1 - Size(module.sub_modules))

\* what the walk of fill_in_arguments finds at the path of the j-th module
\* when it gets there: what the tree holds there once the visitor has
\* been called for the modules before it
InScope(j) ==
    At(walk_config(call.config, FirstOf(call.modules, j - 1), "arguments",
                   TRUE, call.args).config,
       Reached[j].path)

\* C10: a walk with required=True stops at the first module, in walk order,
\* whose config_name is not a key of the mapping in scope or whose value
\* there is not a Mapping: with ProgrammerError in the first case and
\* ConfigurationError in the second, both naming the module's qualified
\* name, and with the visitor called for the modules before it only.
C10_WalkStopsBeforeVisiting ==
    ret.op = "fill_in_arguments" =>
      LET names == [j \in 1..Len(Reached) |-> QName(Reached[j].path)]
          bad   == {j \in 1..Len(Reached) :
                      ~IsMapping(InScope(j))}
      IN  IF bad = {}
          THEN ret.err = NoError /\ ret.visited = names
          ELSE LET j == CHOOSE b \in bad : \A o \in bad : b <= o
                   missing == InScope(j) = Absent
               IN  /\ ret.err.kind = IF missing THEN "ProgrammerError"
                                     ELSE "ConfigurationError"
                   /\ ret.err.name = names[j]
                   /\ ret.visited = SubSeq(names, 1, j - 1)

\* the walk has stopped at the sub-module c of p, whose key holds a scalar
C10_Witness ==
    /\ ret.op = "fill_in_arguments"
    /\ call.modules = <<top, p>>
    /\ At(call.config, <<"p", "c">>) = S(2)
    /\ ret.err = ConfigurationError("must be an object configuration", "p.c")
    /\ ret.visited = <<"top", "p">>

----------------------------------------------------------------------------
(* Claims about the walker called directly, checked under SpecAssembly.    *)

\* the walk the call has made: _walk_config's own parameters
TheWalk ==
    CASE call.op = "assemble_default_config" ->
           [config |-> EmptyMap, f |-> "defaults", required |-> FALSE,
            args |-> EmptyMap]
      [] call.op = "fill_in_arguments" ->
           [config |-> call.config, f |-> "arguments", required |-> TRUE,
            args |-> call.args]
      [] OTHER ->
           [config |-> call.config, f |-> call.f,
            required |-> call.required, args |-> WalkArgs]

\* a direct call of the walker has returned or raised
Walked == ret.op \in {"assemble_default_config", "_walk_config"}

\* the qualified names of the modules of the forest, in walk order
ReachedNames == [j \in 1..Len(Reached) |-> QName(Reached[j].path)]

\* the keys the visitor of the walk writes into the mapping of a module
\* (none when dict(default_config) raises)
VisitorKeys(module) ==
    IF TheWalk.f = "defaults"
    THEN KeysOf(DictOf(module.default_config).dict)
    ELSE {module.runtime_keys[i][2] : i \in
            {i \in 1..Len(module.runtime_keys) :
                Get(TheWalk.args, module.runtime_keys[i][1])
                    \notin {Absent, Null}}}

\* the j-th module of the walk has no config_name
Unnamed(j) == Reached[j].module.config_name = Null

\* the j-th module's config_name is taken in the mapping in scope when a
\* walk with required=False reaches it: by the mapping the walk was given
\* or an earlier top-level module, or by what the parent's visitor wrote
\* or an earlier sub-module of the same parent
Collides(j) ==
    LET path   == Reached[j].path
        name   == path[Len(path)]
        parent == SubSeq(path, 1, Len(path) - 1)
        elder  == {Reached[i].path[Len(path)] : i \in
                     {i \in 1..(j - 1) :
                         /\ Len(Reached[i].path) = Len(path)
                         /\ SubSeq(Reached[i].path, 1, Len(path) - 1) = parent}}
        owner  == {i \in 1..(j - 1) : Reached[i].path = parent}
    IN  \/ name \in elder
        \/ parent = <<>> /\ name \in KeysOf(TheWalk.config)
        \/ \E i \in owner : name \in VisitorKeys(Reached[i].module)

\* the visitor raises at the j-th module
Raises(j) ==
    VisitError(TheWalk.f, Reached[j].module, ReachedNames[j]) # NoError

\* where a walk with required=False stops: the modules that cannot be
\* passed
StopsUnrequired ==
    {j \in 1..Len(Reached) : Unnamed(j) \/ Collides(j) \/ Raises(j)}

\* C11: in a walk with required=False, a module reached whose config_name
\* is already a key of the mapping in scope makes the walk fail with
\* ProgrammerError, the visitor not being called for it; for any other
\* named module reached the visitor is called on a mapping that started
\* empty (it holds the visitor's keys and the sub_modules' only).
C11_TakenKeyStopsTheWalk ==
    (Walked /\ ~TheWalk.required) =>
      \A j \in 1..Len(Reached) :
        (\A i \in StopsUnrequired : j <= i) =>
          IF Unnamed(j) THEN TRUE
          ELSE IF Collides(j)
          THEN /\ ret.err = ProgrammerError("multiple modules providing",
                                            ReachedNames[j])
               /\ ret.visited = SubSeq(ReachedNames, 1, j - 1)
          ELSE /\ Len(ret.visited) >= j
               /\ ret.visited[j] = ReachedNames[j]
               /\ IsMapping(At(ret.config, Reached[j].path))
               /\ KeysOf(At(ret.config, Reached[j].path)) \subseteq
                    VisitorKeys(Reached[j].module)
                    \cup SubNames(Reached[j].module)

\* the default of q has put the key c where its sub-module c should go
C11_Witness ==
    /\ ret.op = "assemble_default_config"
    /\ call.modules = <<top, q>>
    /\ ret.err = ProgrammerError("multiple modules providing", "q.c")
    /\ ret.visited = <<"top", "q">>
    /\ At(ret.config, <<"q">>) = M("c" :> S(1))

\* C12: a walk whose first module has no config_name, a null one or the
\* empty string fails with ProgrammerError, with the mapping as it was
\* given and no visitor called.
C12_NamelessModuleStopsTheWalk ==
    (/\ Walked
     /\ Len(call.modules) >= 1
     /\ call.modules[1].config_name \in {Null, Name("")})
    => /\ ret.err.kind = "ProgrammerError"
       /\ ret.config = TheWalk.config
       /\ ret.visited = <<>>

\* the value found at a key of a module's mapping where the visitor of
\* the walk has written: of the arguments written to one key, the one of
\* the last pair of runtime_keys stays, and it is the argument as the walk
\* has left it
VisitorValue(module, k) ==
    IF TheWalk.f = "defaults" THEN DictOf(module.default_config).dict.map[k]
    ELSE LET matched == {i \in 1..Len(module.runtime_keys) :
                           /\ module.runtime_keys[i][2] = k
                           /\ Get(TheWalk.args, module.runtime_keys[i][1])
                                \notin {Absent, Null}}
             last    == CHOOSE i \in matched : \A o \in matched : o <= i
         IN  Get(ret.args, module.runtime_keys[last][1])

\* C13: a walk on which no check fails calls the visitor once per module,
\* in depth-first pre-order of the forest, with the config_names of the
\* path joined by '.', and on the mapping stored at that path (what the
\* visitor wrote is found there: the argument as the walk has left it,
\* or the default, but for a default at the key of a sub_module, where
\* the sub_module's visitor has written after it).
C13_VisitsInPreOrder ==
    ((Walked \/ ret.op = "fill_in_arguments") /\ ret.err = NoError) =>
      /\ ret.visited = ReachedNames
      /\ \A j \in 1..Len(Reached) :
           LET scoped == At(ret.config, Reached[j].path)
           IN  /\ IsMapping(scoped)
               /\ \A k \in VisitorKeys(Reached[j].module)
                             \ (IF TheWalk.f = "defaults"
                                THEN SubNames(Reached[j].module) ELSE {}) :
                     Get(scoped, k) = VisitorValue(Reached[j].module, k)

\* the sub-module of p has been visited after p and before top
C13_Witness ==
    /\ ret.op = "fill_in_arguments"
    /\ ret.err = NoError
    /\ call.modules = <<p, top>>
    /\ ret.visited = <<"p", "p.c", "top">>
    /\ At(call.config, <<"p", "c", "k">>) = S(2)
    /\ At(ret.config, <<"p", "c", "k">>) = S(3)

\* C14: when a walk fails, the visitor has been called for the modules
\* that precede the failing one in walk order (and for the failing one if
\* it is its visitor that raised) and for no other; the exception names
\* the failing module.  The exception of a walk made by
\* set_default_config is the exception of set_default_config, which
\* publishes nothing.
C14_FailFast ==
    /\ ((Walked \/ ret.op = "fill_in_arguments") /\ ret.err # NoError) =>
         LET n == Len(ret.visited)
         IN  /\ n <= Len(Reached)
             /\ ret.visited = SubSeq(ReachedNames, 1, n)
             /\ IF ret.err.kind \in {"TypeError", "ValueError"}
                THEN /\ n >= 1
                     /\ Raises(n)
                     /\ ret.err.name = ReachedNames[n]
                ELSE /\ n < Len(Reached)
                     /\ IF Unnamed(n + 1)
                        THEN ret.err =
                               ProgrammerError("must provide a config_name", "")
                        ELSE ret.err.name = ReachedNames[n + 1]
    /\ ret.op = "set_default_config" =>
         LET defaults == assemble_default_config(call.in.modules)
             base     == IF call.in.config = Null THEN defaults.config
                         ELSE overlay_config(defaults.config, call.in.config)
             filled   == fill_in_arguments(base, call.in.modules,
                                           call.in.params)
         IN  /\ defaults.err # NoError =>
                  ret.err = defaults.err /\ H = SetHolder
             /\ (defaults.err = NoError /\ filled.err # NoError) =>
                  ret.err = filled.err /\ H = SetHolder

\* the visitor has raised at w and top has not been visited
C14_Witness ==
    /\ ret.op = "assemble_default_config"
    /\ call.modules = <<w, top>>
    /\ ret.err.kind = "TypeError"
    /\ ret.err.name = "w"
    /\ ret.visited = <<"w">>

\* every module of the forest has a config_name and a mapping for
\* default_config, and no two modules of one list have the same config_name
RECURSIVE UniqueSiblings(_)
UniqueSiblings(modules) ==
    /\ \A i \in 1..Len(modules) :
          /\ modules[i].config_name # Null
          /\ IsMapping(modules[i].default_config)
          /\ UniqueSiblings(modules[i].sub_modules)
    /\ \A i, j \in 1..Len(modules) :
          modules[i].config_name = modules[j].config_name => i = j

\* no module of the forest has a default_config key that is the
\* config_name of one of its sub_modules
RECURSIVE NoHiddenSubModule(_)
NoHiddenSubModule(modules) ==
    \A i \in 1..Len(modules) :
       /\ KeysOf(modules[i].default_config) \cap SubNames(modules[i]) = {}
       /\ NoHiddenSubModule(modules[i].sub_modules)

\* the tree of defaults of a list of modules, written key by key: one key
\* per module, holding the module's defaults and the trees of its
\* sub_modules
RECURSIVE DefaultsOf(_)
DefaultsOf(modules) ==
    M([name \in {modules[i].config_name.str : i \in 1..Len(modules)} |->
         LET module == modules[CHOOSE i \in 1..Len(modules) :
                                  modules[i].config_name.str = name]
             subs   == DefaultsOf(module.sub_modules)
         IN  M([k \in KeysOf(module.default_config) \cup KeysOf(subs) |->
                  IF k \in KeysOf(subs) THEN subs.map[k]
                  ELSE module.default_config.map[k]])])

\* C15 as stated: on a forest with unique sibling names
\* assemble_default_config returns the mapping that has, at every module's
\* path, the module's defaults and one key per sub_module.
C15_DefaultsAssembled ==
    (ret.op = "assemble_default_config" /\ UniqueSiblings(call.modules)) =>
      /\ ret.err = NoError
      /\ ret.config = DefaultsOf(call.modules)

\* C15, amended: the same, for forests in which moreover no default_config
\* has a key that is the config_name of a sub_module of the same module.
C15_DefaultsAssembledUnlessHidden ==
    (/\ ret.op = "assemble_default_config"
     /\ UniqueSiblings(call.modules)
     /\ NoHiddenSubModule(call.modules)) =>
      /\ ret.err = NoError
      /\ ret.config = DefaultsOf(call.modules)

\* the defaults of c are found two levels down, under p
C15_Witness ==
    /\ ret.op = "assemble_default_config"
    /\ call.modules = <<p, top>>
    /\ ret.err = NoError
    /\ ret.config = M("p" :> M("c" :> M("k" :> S(1)))
                      @@ "top" :> M("msg" :> S(1) @@ "opts" :> M("x" :> S(1))))

----------------------------------------------------------------------------
(* Claims about the holder, checked under SpecHolder.  Each is about the   *)
(* step a call makes: unprimed is the holder before it, primed after it.   *)

\* the step is a call of the operation op
Calls(op) == call'.op = op

\* C17: get_global_config raises KeyError when no tree is set, whatever
\* its arguments; otherwise it returns the value found by looking its
\* arguments up in turn from the root of the tree (the tree itself for no
\* argument) and fails if one is missing; it leaves the holder as it was.
C17_GetDescendsOrFails ==
    [][Calls("get_global_config") =>
         /\ H' = H
         /\ IF config_cache = Null
            THEN ret'.err.kind = "KeyError"
            ELSE LET found == At(config_cache, call'.args)
                 IN  IF found = Absent
                     THEN ret'.err # NoError
                     ELSE ret'.err = NoError /\ ret'.value = found]_vars

\* a value two levels down has been returned
C17_Witness ==
    /\ call = [op |-> "get_global_config", args |-> <<"top", "msg">>]
    /\ ret = Outcome("get_global_config", NoError, S(3), FALSE)
    /\ config_cache = M("top" :> M("msg" :> S(3)))

\* C18: clear_global_config leaves the four globals null, whatever they
\* were: a get_global_config that follows fails, and a set_global_config
\* that follows is not refused for its path.
C18_ClearEmptiesTheHolder ==
    [][Calls("clear_global_config") =>
         /\ H' = EmptyHolder
         /\ \A args \in GlobalPaths :
               get_global_config(H', args).err.kind = "KeyError"
         /\ \A x \in {y \in GlobalSources : y.tag = "Str"} :
               /\ set_global_config(H', x).err.what # "differs"
               /\ x.str \in DOMAIN FileSystem =>
                    set_global_config(H', x).err = NoError]_vars

\* the holder has just been cleared
C18_Witness ==
    /\ ret.op = "clear_global_config"
    /\ H = EmptyHolder

\* C19 as stated: once a path P is recorded, set_global_config with
\* another path fails and leaves the tree and the recorded path as they
\* were, and only clear_global_config makes the holder forget P;
\* set_global_config with P itself is accepted and leaves P recorded.
C19_OtherPathRefused ==
    [][config_file_path # Null =>
         /\ (Calls("set_global_config") /\ call'.arg.tag = "Str") =>
              IF call'.arg # config_file_path
              THEN /\ ret'.err.kind = "Exception"
                   /\ config_cache' = config_cache
                   /\ config_file_path' = config_file_path
              ELSE /\ ret'.err.what # "differs"
                   /\ config_file_path' = config_file_path
                   /\ call'.arg.str \in DOMAIN FileSystem =>
                        ret'.err = NoError
         /\ config_file_path' # config_file_path =>
              Calls("clear_global_config")]_vars

\* C19, amended: the same once a non-empty path P is recorded; a recorded
\* empty path refuses nothing.
C19_OtherPathRefusedUnlessEmpty ==
    [][/\ Truthy(config_file_path) =>
            /\ (Calls("set_global_config") /\ call'.arg.tag = "Str") =>
                 IF call'.arg # config_file_path
                 THEN /\ ret'.err.kind = "Exception"
                      /\ config_cache' = config_cache
                      /\ config_file_path' = config_file_path
                 ELSE /\ ret'.err.what # "differs"
                      /\ config_file_path' = config_file_path
                      /\ call'.arg.str \in DOMAIN FileSystem =>
                           ret'.err = NoError
            /\ config_file_path' # config_file_path =>
                 Calls("clear_global_config")
       /\ (/\ config_file_path = Name("")
           /\ Calls("set_global_config")
           /\ call'.arg.tag = "Str") =>
            /\ ret'.err.what # "differs"
            /\ config_file_path' = call'.arg]_vars

\* the path Q has been refused while P was recorded
C19_Witness ==
    /\ call = [op |-> "set_global_config", arg |-> Name("Q")]
    /\ ret.err.kind = "Exception"
    /\ ret.err.what = "differs"
    /\ config_file_path = Name("P")
    /\ config_cache = FileSystem["P"]

\* C20: set_global_config with a mapping succeeds whatever the holder is,
\* makes the mapping the tree that get_global_config() returns, changes
\* nothing else, and logs the 'resetting config' warning if and only if a
\* tree was set before.
C20_MappingIsStored ==
    [][(Calls("set_global_config") /\ call'.arg.tag = "Mapping") =>
         /\ ret'.err = NoError
         /\ ret'.value = call'.arg
         /\ H' = [H EXCEPT !.config_cache = call'.arg]
         /\ get_global_config(H', <<>>) =
              [err |-> NoError, value |-> call'.arg]
         /\ ret'.warned = (config_cache # Null)]_vars

\* a mapping has replaced a tree, with the warning
C20_Witness ==
    /\ call = [op |-> "set_global_config",
               arg |-> M("top" :> M("msg" :> S(3)))]
    /\ ret = Outcome("set_global_config", NoError, call.arg, TRUE)
    /\ config_cache = call.arg
    /\ config_file_path = Name("P")

----------------------------------------------------------------------------
(* Claims about the validation helpers and the factory.                    *)

\* C21: check_subconfig raises ConfigurationError, without calling the
\* checker, when the parent mapping has no entry for sub.config_name or an
\* entry that is not a mapping; otherwise it calls sub.check_config, if
\* there is one, with the entry and the name name.config_name.
C21_SubconfigMustBeAMapping ==
    ret.op = "check_subconfig" =>
      LET subname == call.sub.config_name.str
          entry   == Get(call.config, subname)
      IN  IF entry = Absent \/ ~IsMapping(entry)
          THEN ret.err.kind = "ConfigurationError" /\ ret.checked = Null
          ELSE IF call.sub.check_config # "none"
          THEN ret.checked = [config |-> entry,
                              name |-> call.name \o "." \o subname]
          ELSE ret.checked = Null /\ ret.err = NoError

\* C22: check_toplevel_config raises ConfigurationError naming who and
\* what.config_name whenever the global configuration has no entry for
\* what.config_name, also when no configuration is set at all; when the
\* entry is there it calls what.check_config, if there is one, with the
\* entry and that name.
C22_ToplevelConfigRequired ==
    ret.op = "check_toplevel_config" =>
      LET config_name == call.what.config_name.str
          present     == /\ IsMapping(config_cache)
                         /\ config_name \in KeysOf(config_cache)
      IN  IF ~present
          THEN /\ ret.err = ConfigurationError(
                     call.who \o " requires top-level configuration for",
                     config_name)
               /\ ret.checked = Null
          ELSE IF call.what.check_config # "none"
          THEN ret.checked = [config |-> config_cache.map[config_name],
                              name |-> config_name]
          ELSE ret.checked = Null /\ ret.err = NoError

\* the configuration of the object of the call: its entry in the parent
ObjectConfig ==
    IF call.configurable.config_name \in KeysOf(call.config)
    THEN call.config.map[call.configurable.config_name] ELSE EmptyMap

\* C23: check_config of an auto-configured object raises
\* ConfigurationError when its configuration has a key that its
\* default_config has not, raises ConfigurationError when it lacks a key
\* that its default_config has, and passes when the two key sets are equal.
C23_KeysMustMatchDefaults ==
    ret.op = "AutoConfigured.check_config" =>
      IF KeysOf(ObjectConfig) = KeysOf(call.configurable.default_config)
      THEN ret.err = NoError
      ELSE ret.err.kind = "ConfigurationError"

\* C24: when create returns, every keyword argument of the caller is among
\* the arguments the configurable is called with, with the caller's value,
\* whatever the configuration and the services of the factory say.
C24_KeywordsWin ==
    (ret.op = "AutoFactory.create" /\ ret.err = NoError) =>
      \A k \in KeysOf(call.kwargs) :
         Get(ret.called, k) = call.kwargs.map[k]


----------------------------------------------------------------------------
(* Claims about publishing, checked under SpecAssembly.                    *)

\* the last module's check_config on the tree set_default_config built
ValidationOf(in) ==
    LET defaults == assemble_default_config(in.modules)
        base     == IF in.config = Null THEN defaults.config
                    ELSE overlay_config(defaults.config, in.config)
        filled   == fill_in_arguments(base, in.modules, in.params)
        mod      == in.modules[Len(in.modules)]
    IN  IF defaults.err # NoError \/ filled.err # NoError THEN NoError
        ELSE IF in.validate /\ Len(in.modules) > 0
                /\ mod.check_config # "none"
        THEN CheckConfig(mod, filled.config.map[mod.config_name.str],
                         mod.config_name.str)
        ELSE NoError

\* C26: set_default_config publishes only on success.  When the call
\* raises (in the assembly of the defaults, in the argument walk or in the
\* validation) the four globals are what they were before the call; when
\* it returns, the validation has passed, the tree it returns is the
\* current tree and the other globals are what they were.
C26_PublishesOnlyOnSuccess ==
    ret.op = "set_default_config" =>
       /\ ret.err # NoError => H = SetHolder
       /\ ret.err = NoError =>
            /\ ValidationOf(call.in) = NoError
            /\ H = [SetHolder EXCEPT !.config_cache = ret.config]

\* the validation of the last module has failed after both walks passed
C26_Witness ==
    /\ ret.op = "set_default_config"
    /\ call.in.modules = <<top, v>>
    /\ call.in.validate
    /\ ret.err = ConfigurationError("check_config", "v")
    /\ H = SetHolder


\* the cell found at a path of keys from a cell, Absent where there is none
RECURSIVE CellAt(_, _, _)
CellAt(heap, cell, path) ==
    IF path = <<>> THEN cell
    ELSE IF IsRef(cell) /\ Head(path) \in DOMAIN heap[cell.id]
         THEN CellAt(heap, heap[cell.id][Head(path)], Tail(path))
         ELSE Absent

\* C27: set_default_config(modules, params, config=doc) does not change
\* its inputs.  After the call, returned or raised, every dict the caller
\* held before it (the default_config of every module, doc and params,
\* with the dicts inside them) has the items it had, so each input is
\* structurally what it was; and the published tree is a dict made during
\* the call at the root and at the path of every module.
C27_InputsNotMutated ==
    ret.op = "set_default_config" =>
       LET before    == call.mem.heap
           after     == ret.on_heap.heap
           published == ret.on_heap.published
           \* the cell is a dict made during the call
           IsNewDict(cell) == IsRef(cell) /\ cell.id > Len(before)
       IN  /\ ret.on_heap.err = ret.err
           /\ \A id \in 1 .. Len(before) : after[id] = before[id]
           /\ \A module \in DOMAIN call.mem.defaults :
                Reify(after, call.mem.defaults[module]) = module.default_config
           /\ call.in.config # Null =>
                Reify(after, call.mem.config) = call.in.config
           /\ Reify(after, call.mem.params) = call.in.params
           /\ ret.err = NoError =>
                /\ Reify(after, published) = ret.config
                /\ IsNewDict(published)
                /\ \A j \in 1 .. Len(Reached) :
                     IsNewDict(CellAt(after, published, Reached[j].path))

----------------------------------------------------------------------------
(* Claims about nested and interleaved scoped overrides, checked under     *)
(* Spec.                                                                   *)

\* what a block may leave in the holder before it ends
BlockLeaves(h) ==
    {h, clear_global_config(h),
     set_runtime_args_dict(h, M("config" :> S(3))),
     set_global_config(h, Name("Q")).h}

\* scoped overrides entered one inside the other from the state h, depth
\* deep: each captures the state it is entered from, and when the scopes
\* inside it have ended and its own block ends, the state is h again
RECURSIVE NestRestores(_, _)
NestRestores(h, depth) ==
    depth = 0 \/
    \A in \in HolderInputs :
       LET e == defaulted_config_enter(h, in)
       IN  e.pc = "block" =>
             /\ e.old = h
             /\ NestRestores(e.h, depth - 1)
             /\ \A left \in BlockLeaves(e.h) :
                  /\ NestRestores(left, depth - 1)
                  /\ temporary_config_exit(left, e.old) = h

\* C28: scoped overrides nest.  A scope entered while others are open
\* captures the state it is entered from and leaves the states the open
\* scopes captured alone; when its block ends, the state is again the one
\* of the enclosing scope at the moment of the inner entry, and the states
\* the others captured are still theirs to restore; the calls of a block
\* never change a captured state.  So from every reachable state, scopes
\* entered and left in LIFO order, to the depth MaxScopes, end in the state
\* before the first entry.
C28_ScopesNest ==
    /\ [](NestRestores(H, MaxScopes))
    /\ [][/\ \A s \in Scope :
              /\ Steps(s, "idle", "block") =>
                   /\ scopes'[s].old = H
                   /\ \A t \in Scope \ {s} : scopes'[t] = scopes[t]
              /\ Steps(s, "block", "done") =>
                   /\ H' = scopes[s].old
                   /\ \A t \in Scope \ {s} : scopes'[t] = scopes[t]
          /\ (\A u \in Scope : scopes'[u].pc = scopes[u].pc) =>
               scopes' = scopes]_vars

\* the inner scope 2 has just ended while scope 1 is open: the holder has
\* the tree scope 1 assembled, and scope 1 still keeps the state it will
\* restore
C28_Witness ==
    /\ ret = Returned("exit", 2, NoError)
    /\ scopes[2].pc = "done"
    /\ scopes[1].pc = "block"
    /\ scopes[1].old = Holder(FileSystem["P"], Name("P"), Null,
                              M("config" :> S(3)))
    /\ H = Holder(M("top" :> M("msg" :> S(3))), Null, Null, Null)
    /\ H.config_cache =
         set_default_config(EmptyHolder, <<top>>, M("cli_msg" :> S(3)),
                            M("top" :> M("opts" :> Null)), TRUE).config


\* the holder inside the block of a scope that assembled `tree`
InsideScope(tree) == Holder(tree, Null, Null, Null)

\* C29: the holder is not safe when scoped overrides interleave.  From
\* every reachable state, when A enters, B enters inside A's block, A's
\* block ends and then B's block ends, the exit of A puts back the state
\* before A entered, and the exit of B then puts back what B captured: the
\* holder is left with the tree A assembled and nothing else, which is not
\* the state before A entered unless that state was already exactly this.
C29_InterleavedExitsLeaveScopeTree ==
    \A a \in HolderInputs, b \in HolderInputs :
       LET eA == defaulted_config_enter(H, a)
           eB == defaulted_config_enter(eA.h, b)
           xA == temporary_config_exit(eB.h, eA.old)
           xB == temporary_config_exit(xA, eB.old)
       IN  (eA.pc = "block" /\ eB.pc = "block") =>
             /\ xA = H
             /\ eA.yielded # Null
             /\ xB = InsideScope(eA.yielded)
             /\ H # InsideScope(eA.yielded) => xB # H

\* A (scope 1) and B (scope 2) have both ended, B last, and the holder
\* has the tree A assembled and no path and no runtime arguments
C29_Witness ==
    /\ ret = Returned("exit", 2, NoError)
    /\ scopes[1].pc = "done"
    /\ scopes[2].pc = "done"
    /\ H = InsideScope(M("top" :> M("msg" :> S(3))))


\* C30: in every reachable state at most one of the runtime-arguments
\* object and the runtime-arguments dict is set: each setter resets the
\* other binding, clear_global_config resets both, and a scoped override
\* puts back a pair it captured.
C30_OneRuntimeArgsBinding ==
    runtime_args_object = Null \/ runtime_args_dict = Null

\* a scope that was entered with an arguments object set has ended, and
\* the object is bound again and no dict is
C30_Witness ==
    /\ ret = Returned("exit", 1, NoError)
    /\ runtime_args_object = Namespace(M("config" :> S(3)))
    /\ runtime_args_dict = Null
    /\ scopes[1].pc = "done"

=============================================================================
